---- MODULE Spec2Model ----
(***************************************************************************)
(* Model of extensions/skyportal/skyportal/handlers/api/archive.py:        *)
(* the request handlers that query the Gloria catalog service and ingest   *)
(* archival ZTF light curves.  One request is processed at a time; every   *)
(* handler is a sequence of steps over the request's local variables, the  *)
(* store, the set of live tokens and the log of calls it made.             *)
(***************************************************************************)
EXTENDS Integers, Sequences, FiniteSets, TLC

\* ------------------------------------------------------------------ bounds
\* number of requests handled in one behaviour
MaxRequests == 2

\* light curves of an input of make_photometry, and epochs of a light curve
MaxCurves == 2

MaxEpochs == 2

\* ticks looked at on each side of every boundary of a sexagesimal field
EdgeTicks == 2

\* ------------------------------------------------------- request values
\* A request value is Python's None, a text (sequence of characters or
\* tokens), a JSON number or a JSON list.
None == [t |-> "none"]

Str(s) == [t |-> "str", v |-> s]

Num(n) == [t |-> "num", v |-> n]

List(l) == [t |-> "list", v |-> l]

\* Python truth value, as used by all() and any()
Truthy(x) ==
  CASE x.t = "none" -> FALSE
    [] x.t = "str" -> Len(x.v) > 0
    [] x.t = "num" -> x.v # 0
    [] x.t = "list" -> Len(x.v) > 0

all(tuple) == \A i \in 1..Len(tuple) : Truthy(tuple[i])

any(tuple) == \E i \in 1..Len(tuple) : Truthy(tuple[i])

\* floating point values: a number or NaN
NaN == [nan |-> TRUE, v |-> 0]

Fl(n) == [nan |-> FALSE, v |-> n]

\* comparisons with a NaN operand are false
Gt(a, n) == ~a.nan /\ a.v > n

Le(n, a) == ~a.nan /\ n <= a.v

Lt(a, n) == ~a.nan /\ a.v < n

LeN(a, n) == ~a.nan /\ a.v <= n

Digits == {"0", "1", "2", "3", "4", "5", "6", "7", "8", "9"}

DigitVal(c) ==
  CASE c = "0" -> 0 [] c = "1" -> 1 [] c = "2" -> 2 [] c = "3" -> 3
    [] c = "4" -> 4 [] c = "5" -> 5 [] c = "6" -> 6 [] c = "7" -> 7
    [] c = "8" -> 8 [] c = "9" -> 9

RECURSIVE DigitsVal(_)
DigitsVal(s) ==
  IF s = <<>> THEN 0
  ELSE 10 * DigitsVal(SubSeq(s, 1, Len(s) - 1)) + DigitVal(s[Len(s)])

IsDigits(s) == Len(s) > 0 /\ \A i \in 1..Len(s) : s[i] \in Digits

\* float(x): does the conversion raise ValueError ...
floatRaises(x) ==
  /\ x.t = "str"
  /\ x.v # <<"n", "a", "n">>
  /\ ~IsDigits(x.v)
  /\ ~(Len(x.v) > 1 /\ x.v[1] = "-" /\ IsDigits(Tail(x.v)))

\* ... and the value it returns otherwise
float(x) ==
  IF x.t = "num" THEN Fl(x.v)
  ELSE IF x.v = <<"n", "a", "n">> THEN NaN
  ELSE IF x.v[1] = "-" THEN Fl(0 - DigitsVal(Tail(x.v)))
  ELSE Fl(DigitsVal(x.v))

\* ------------------------------------------------------------ names
\* A name is a sequence of tokens, so that prefix and substring tests are
\* computed and not assumed.
RECURSIVE startswith(_, _)
startswith(name, prefix) ==
  IF prefix = <<>> THEN TRUE
  ELSE IF name = <<>> THEN FALSE
  ELSE name[1] = prefix[1] /\ startswith(Tail(name), Tail(prefix))

\* Python's  sub in name
RECURSIVE contains(_, _)
contains(name, sub) ==
  IF startswith(name, sub) THEN TRUE
  ELSE IF name = <<>> THEN FALSE
  ELSE contains(Tail(name), sub)

ZTF_sources == <<"ZTF", "_source", "s">>

ZTF_source_features == <<"ZTF", "_source", "_features">>

\* str.lower() on a token
lowerTok(tok) == IF tok = "ZTF" THEN "ztf" ELSE IF tok = "Ztf" THEN "ztf" ELSE tok

lower(name) == [i \in 1..Len(name) |-> lowerTok(name[i])]

\* ------------------------------------------------- name synthesis
\* Coordinates are integers in ticks of 1/108000 degree (1/30 arcsec).
Deg == 30 * 3600

Pad2(n) == IF n < 10 THEN "0" \o ToString(n) ELSE ToString(n)

abs(x) == IF x < 0 THEN 0 - x ELSE x

\* f"{x:05.2f}" of x = r * 2/9 hundredths, f"{x:04.1f}" of x = r / 3 tenths:
\* round to the nearest printed unit, then print with zero padding
fmt2(hundredths) == Pad2(hundredths \div 100) \o "." \o Pad2(hundredths % 100)

\* f"{x:.1f}": the seconds of declination without zero padding
fmt1_NoPadding(tenths) == ToString(tenths \div 10) \o "." \o ToString(tenths % 10)

fmt1(tenths) == Pad2(tenths \div 10) \o "." \o ToString(tenths % 10)

radec_raises(ra, dec) == ~(0 <= ra /\ ra < 360 * Deg) \/ ~(0 - 90 * Deg <= dec /\ dec <= 90 * Deg)

\* radec_to_iau_name that takes the sign from the whole degrees
radec_to_iau_name_SignOfDegrees(ra, dec, prefix) ==
  LET ra_h == ra \div (15 * Deg)
      ra_m == (ra % (15 * Deg)) \div (Deg \div 4)
      ra_s == (4 * (ra % (Deg \div 4)) + 9) \div 18
      dec_d == abs(dec) \div Deg
      dec_m == (abs(dec) % Deg) \div (Deg \div 60)
      dec_s == (2 * (abs(dec) % (Deg \div 60)) + 3) \div 6
      hms == Pad2(ra_h) \o Pad2(ra_m) \o fmt2(ra_s)
      dms == (IF dec < 0 /\ dec_d > 0 THEN "-" ELSE "+") \o Pad2(dec_d) \o Pad2(dec_m)
               \o fmt1(dec_s)
  IN prefix \o hms \o dms

radec_to_iau_name(ra, dec, prefix) ==
  LET ra_h == ra \div (15 * Deg)
      ra_m == (ra % (15 * Deg)) \div (Deg \div 4)
      ra_s == (4 * (ra % (Deg \div 4)) + 9) \div 18
      dec_d == abs(dec) \div Deg
      dec_m == (abs(dec) % Deg) \div (Deg \div 60)
      dec_s == (2 * (abs(dec) % (Deg \div 60)) + 3) \div 6
      hms == Pad2(ra_h) \o Pad2(ra_m) \o fmt2(ra_s)
      dms == (IF dec < 0 THEN "-" ELSE "+") \o Pad2(dec_d) \o Pad2(dec_m) \o fmt1(dec_s)
  IN prefix \o hms \o dms

\* ------------------------------------------------- the remote service
\* JSON null / missing coordinate of a remote record
NoCoord == 0 - 999999999

\* hjd is counted in half days
Epoch(h, c, p) == [hjd |-> h, catflags |-> c, programid |-> p]

\* records held by the remote light-curve catalog
RemoteRecords ==
  << [id |-> 1, ra |-> 180 * Deg, dec |-> 0, filter |-> 1,
      data |-> << Epoch(4900010, 0, 1), Epoch(4900011, 1, 1), Epoch(4900012, 0, 2) >>],
     [id |-> 2, ra |-> 180 * Deg + 60, dec |-> 0 - 30, filter |-> 2,
      data |-> << Epoch(4900020, 0, 1), Epoch(4900021, 0, 3) >>],
     [id |-> 3, ra |-> 10 * Deg, dec |-> 5 * Deg, filter |-> 3,
      data |-> << Epoch(4900030, 1, 1) >>],
     [id |-> 4, ra |-> NoCoord, dec |-> NoCoord, filter |-> 1,
      data |-> << Epoch(4900040, 0, 1) >>],
     [id |-> 5, ra |-> 20 * Deg, dec |-> 0 - Deg \div 2, filter |-> 2,
      data |-> << Epoch(4900050, 0, 2) >>] >>

InSeq(x, s) == \E i \in 1..Len(s) : s[i] = x

\* $filter: keep the epochs whose programid is in the selector
RECURSIVE filterData(_, _)
filterData(data, selector) ==
  IF data = <<>> THEN <<>>
  ELSE (IF data[1].programid \in selector THEN <<data[1]>> ELSE <<>>)
         \o filterData(Tail(data), selector)

\* the aggregate pipeline: $match on _id, $project with a $filter on data
RECURSIVE aggregate(_, _, _)
aggregate(records, ids, selector) ==
  IF records = <<>> THEN <<>>
  ELSE (IF InSeq(records[1].id, ids)
        THEN << [records[1] EXCEPT !.data = filterData(records[1].data, selector)] >>
        ELSE <<>>)
         \o aggregate(Tail(records), ids, selector)

\* ------------------------------------------------- streams
Stream(n, i, sel) == [name |-> n, id |-> i, selector |-> sel]

ZTFPublic == <<"ZTF", " Public">>

ZTFPartnership == <<"ZTF", " Public", "+Partnership">>

ZTFCaltech == <<"ZTF", " Public", "+Partnership", "+Caltech">>

StreamConfigs ==
  { {},
    {Stream(ZTFPublic, 1, {1})},
    {Stream(ZTFPublic, 1, {1}), Stream(ZTFPartnership, 2, {1, 2}),
     Stream(ZTFCaltech, 3, {1, 2, 3})},
    {Stream(ZTFPublic, 1, {1}), Stream(<<"Gattini">>, 4, {2})},
    {Stream(<<"Ztf", " Collab">>, 5, {1, 2})} }

\* program_id_selector that takes the selector of every stream of the caller
program_id_selector_AnyStream(streams) ==
  {1} \cup UNION {st.selector : st \in streams}

\* program ids the caller may see
program_id_selector(streams) ==
  {1} \cup UNION {st.selector : st \in {x \in streams : contains(lower(x.name), <<"ztf">>)}}

\* ------------------------------------------------- normalisation
RECURSIVE rowsOf(_)
rowsOf(light_curves) ==
  IF light_curves = <<>> THEN <<>>
  ELSE [i \in 1..Len(light_curves[1].data) |->
          [hjd |-> light_curves[1].data[i].hjd,
           catflags |-> light_curves[1].data[i].catflags,
           programid |-> light_curves[1].data[i].programid,
           fid |-> light_curves[1].filter]]
         \o rowsOf(Tail(light_curves))

ztf_filters(fid) == CASE fid = 1 -> "ztfg" [] fid = 2 -> "ztfr" [] fid = 3 -> "ztfi"

RECURSIVE dropFlagged(_)
dropFlagged(rows) ==
  IF rows = <<>> THEN <<>>
  ELSE (IF rows[1].catflags = 0 THEN <<rows[1]>> ELSE <<>>) \o dropFlagged(Tail(rows))

\* pd.concat of an empty list raises ValueError; an unknown filter code
\* raises KeyError
make_photometry_raises(light_curves) ==
  \/ \A i \in 1..Len(light_curves) : Len(light_curves[i].data) = 0
  \/ \E i \in 1..Len(light_curves) :
       Len(light_curves[i].data) > 0 /\ light_curves[i].filter \notin {1, 2, 3}

\* make_photometry that never applies the mask
make_photometry_MaskIgnored(light_curves, drop_flagged) ==
  [i \in 1..Len(rowsOf(light_curves)) |->
     [mjd |-> rowsOf(light_curves)[i].hjd - 4800001,
      catflags |-> rowsOf(light_curves)[i].catflags,
      programid |-> rowsOf(light_curves)[i].programid,
      fid |-> rowsOf(light_curves)[i].fid,
      ztf_filter |-> ztf_filters(rowsOf(light_curves)[i].fid),
      magsys |-> "ab"]]

make_photometry(light_curves, drop_flagged) ==
  LET df == [i \in 1..Len(rowsOf(light_curves)) |->
               [mjd |-> rowsOf(light_curves)[i].hjd - 4800001,
                catflags |-> rowsOf(light_curves)[i].catflags,
                programid |-> rowsOf(light_curves)[i].programid,
                fid |-> rowsOf(light_curves)[i].fid,
                ztf_filter |-> ztf_filters(rowsOf(light_curves)[i].fid),
                magsys |-> "ab"]]
  IN IF drop_flagged THEN dropFlagged(df) ELSE df

\* np.mean over the coordinates that are not None (nan for an empty list)
RECURSIVE sumSeq(_)
sumSeq(s) == IF s = <<>> THEN 0 ELSE s[1] + sumSeq(Tail(s))

RECURSIVE present(_)
present(s) ==
  IF s = <<>> THEN <<>>
  ELSE (IF s[1] # NoCoord THEN <<s[1]>> ELSE <<>>) \o present(Tail(s))

mean(s) == IF present(s) = <<>> THEN NoCoord ELSE sumSeq(present(s)) \div Len(present(s))

\* programid -> stream id, by exact stream name
ztf_program_id_to_stream_id(streams) ==
  [p \in {q \in 0..3 :
            \/ q = 1 /\ \E st \in streams : st.name = ZTFPublic
            \/ q = 2 /\ \E st \in streams : st.name = ZTFPartnership
            \/ q \in {0, 3} /\ \E st \in streams : st.name = ZTFCaltech}
     |-> IF p = 1 THEN (CHOOSE st \in streams : st.name = ZTFPublic).id
         ELSE IF p = 2 THEN (CHOOSE st \in streams : st.name = ZTFPartnership).id
         ELSE (CHOOSE st \in streams : st.name = ZTFCaltech).id]

\* ------------------------------------------------------------ state
VARIABLES
  gloria,         \* module-level client: TRUE when connected, FALSE for None
  catalog_names,  \* catalogs the remote service exposes
  user_streams,   \* streams of the caller
  sources,        \* Source rows of the store (obj ids)
  objs,           \* Obj rows of the store (obj ids)
  instrument,     \* TRUE when the ZTF instrument exists in the store
  annotations,    \* Annotation rows: <<obj_id, origin, author>>
  photometry,     \* photometry batches accepted by add_external_photometry
  tokens,         \* live tokens
  token_seq,      \* number of tokens minted so far
  handler,        \* handler method of the current request
  pc,             \* its position
  args,           \* its arguments
  loc,            \* its local variables
  result,         \* what it reported
  log,            \* calls made to collaborators during the request
  queries,        \* queries sent to the remote service during the request
  nreq,           \* number of requests started
  parked          \* the request in flight in another server process

\* what a step of the running request leaves alone: the environment and the
\* request of the other process
env == <<gloria, catalog_names, user_streams, parked>>

store == <<sources, objs, instrument, annotations, photometry>>

toks == <<tokens, token_seq>>

vars == <<gloria, catalog_names, user_streams, sources, objs, instrument,
          annotations, photometry, tokens, token_seq, handler, pc, args, loc,
          result, log, queries, nreq, parked>>

IsNone(x) == x.t = "none"

NoResult == [kind |-> "none", msg |-> "", data |-> <<>>]

ZTF_sources_DR5 == ZTF_sources \o <<"_DR5">>

ZTF_source_features_DR5 == ZTF_source_features \o <<"_DR5">>

CatalogSets ==
  { {ZTF_sources_DR5, ZTF_source_features_DR5, <<"Gaia", "_DR2">>,
     <<"my_", "ZTF", "_source", "s">>, <<"PTF", "_sources">>},
    {ZTF_sources_DR5, ZTF_source_features_DR5} }

\* message field of an error response of the remote service
RemoteMessage == "query failed"

\* a server process that is handling no request
Idle ==
  [handler |-> "idle", pc |-> "idle", args |-> <<>>, loc |-> <<>>,
   result |-> NoResult, log |-> <<>>, queries |-> <<>>]

Init ==
  /\ gloria \in BOOLEAN
  /\ IF gloria
     THEN /\ catalog_names \in CatalogSets
          /\ user_streams \in StreamConfigs
          /\ sources \in {{}, {"A"}}
          /\ instrument \in BOOLEAN
     ELSE /\ catalog_names = {}
          /\ user_streams = {}
          /\ sources = {}
          /\ instrument = TRUE
  /\ objs = sources
  /\ annotations = {}
  /\ photometry = {}
  /\ tokens = {}
  /\ token_seq = 0
  /\ handler = "idle"
  /\ pc = "idle"
  /\ args = <<>>
  /\ loc = <<>>
  /\ result = NoResult
  /\ log = <<>>
  /\ queries = <<>>
  /\ nreq = 0
  /\ parked = Idle

\* a request arrives at handler h with arguments a
Begin(h, a, first) ==
  /\ pc = "idle"
  /\ handler' = h
  /\ args' = a
  /\ pc' = first
  /\ result' = NoResult
  /\ log' = <<>>
  /\ queries' = <<>>

\* self.success(...) / self.error(...) / an uncaught exception
Return(kind, msg, data) ==
  /\ result' = [kind |-> kind, msg |-> msg, data |-> data]
  /\ pc' = "done"

\* the method has returned (or raised): the request is over
Respond ==
  /\ pc = "done"
  /\ pc' = "idle"
  /\ handler' = "idle"
  /\ args' = <<>>
  /\ loc' = <<>>
  /\ result' = NoResult
  /\ log' = <<>>
  /\ queries' = <<>>
  /\ UNCHANGED <<env, store, toks, nreq>>

\* a query sent to the remote service; status and n are filled in by Send
Query(type, catalogs, ids, selector, ra, dec, radius, units, projection) ==
  [query_type |-> type, catalogs |-> catalogs, ids |-> ids, selector |-> selector,
   ra |-> ra, dec |-> dec, radius |-> radius, units |-> units,
   projection |-> projection, status |-> "", n |-> 0]

InfoQuery == Query("info", {}, <<>>, {}, NaN, NaN, NaN, <<>>, {})

\* gloria.query(query=q): the round trip, answered with a status and n items
Send(q, status, n) == queries' = Append(queries, [q EXCEPT !.status = status, !.n = n])

\* ------------------------------------------------- ArchiveHandler.post
PostArgs ==
  [obj_id : {None, Str("A")},
   catalog : {None, Str(ZTF_sources_DR5)},
   light_curve_ids : {None, List(<<>>), List(<<1>>), List(<<1, 2>>), List(<<3>>),
                      List(<<4>>), List(<<5>>), List(<<9>>)},
   group_ids : {None, List(<<>>), List(<<1>>)}]

PostLocals ==
  [program_id_selector |-> {}, light_curves |-> <<>>, token_id |-> 0,
   obj_id |-> "", ra_mean |-> 0, dec_mean |-> 0, df_photometry |-> <<>>,
   stream_ids |-> <<>>, pending |-> NoResult, sources_before |-> {},
   post_source_data |-> None]

PostBegin ==
  /\ nreq < MaxRequests
  /\ \E a \in PostArgs : Begin("ArchiveHandler.post", a, "post_validate")
  /\ loc' = [PostLocals EXCEPT !.sources_before = sources]
  /\ nreq' = nreq + 1
  /\ UNCHANGED <<env, store, toks>>

\* PostValidate that accepts an empty light_curve_ids list
PostValidate_EmptyIdsAccepted ==
  /\ handler = "ArchiveHandler.post" /\ pc = "post_validate"
  /\ IF ~gloria
     THEN Return("error", "Gloria connection unavailable.", <<>>)
     ELSE IF IsNone(args.obj_id)
             /\ (IsNone(args.group_ids) \/ Len(args.group_ids.v) = 0)
     THEN Return("error", "Parameter group_ids is required if obj_id is not set", <<>>)
     ELSE IF IsNone(args.catalog)
     THEN Return("error", "Missing required parameter: catalog", <<>>)
     ELSE IF IsNone(args.light_curve_ids)
     THEN Return("error", "Bad required parameter: light_curve_ids", <<>>)
     ELSE pc' = "post_selector" /\ UNCHANGED result
  /\ UNCHANGED <<env, store, toks, handler, args, loc, log, queries, nreq>>

PostValidate ==
  /\ handler = "ArchiveHandler.post" /\ pc = "post_validate"
  /\ IF ~gloria
     THEN Return("error", "Gloria connection unavailable.", <<>>)
     ELSE IF IsNone(args.obj_id)
             /\ (IsNone(args.group_ids) \/ Len(args.group_ids.v) = 0)
     THEN Return("error", "Parameter group_ids is required if obj_id is not set", <<>>)
     ELSE IF IsNone(args.catalog)
     THEN Return("error", "Missing required parameter: catalog", <<>>)
     ELSE IF IsNone(args.light_curve_ids) \/ Len(args.light_curve_ids.v) = 0
     THEN Return("error", "Bad required parameter: light_curve_ids", <<>>)
     ELSE pc' = "post_selector" /\ UNCHANGED result
  /\ UNCHANGED <<env, store, toks, handler, args, loc, log, queries, nreq>>

PostSelector ==
  /\ handler = "ArchiveHandler.post" /\ pc = "post_selector"
  /\ log' = Append(log, "session")
  /\ loc' = [loc EXCEPT !.program_id_selector = program_id_selector(user_streams)]
  /\ pc' = "post_query"
  /\ UNCHANGED <<env, store, toks, handler, args, result, queries, nreq>>

\* PostQuery whose aggregate request carries a $filter on every program id
PostQuery_FilterAllPrograms ==
  /\ handler = "ArchiveHandler.post" /\ pc = "post_query"
  /\ log' = Append(log, "aggregate")
  /\ \E status \in {"success", "error"} :
       LET light_curves == aggregate(RemoteRecords, args.light_curve_ids.v, 0..3)
       IN /\ Send(Query("aggregate", {args.catalog.v}, args.light_curve_ids.v,
                        0..3, NaN, NaN, NaN, <<>>, {}),
                  status, IF status = "success" THEN Len(light_curves) ELSE 0)
          /\ IF status = "error"
             THEN Return("error", RemoteMessage, <<>>) /\ UNCHANGED loc
             ELSE IF Len(light_curves) = 0
             THEN /\ Return("error", "No data found for requested light_curve_ids", <<>>)
                  /\ UNCHANGED loc
             ELSE /\ loc' = [loc EXCEPT !.light_curves = light_curves]
                  /\ pc' = "post_token"
                  /\ UNCHANGED result
  /\ UNCHANGED <<env, store, toks, handler, args, nreq>>

\* PostQuery that goes on with an empty list of records
PostQuery_NoEmptyCheck ==
  /\ handler = "ArchiveHandler.post" /\ pc = "post_query"
  /\ log' = Append(log, "aggregate")
  /\ \E status \in {"success", "error"} :
       LET light_curves == aggregate(RemoteRecords, args.light_curve_ids.v,
                                     loc.program_id_selector)
       IN /\ Send(Query("aggregate", {args.catalog.v}, args.light_curve_ids.v,
                        loc.program_id_selector, NaN, NaN, NaN, <<>>, {}),
                  status, IF status = "success" THEN Len(light_curves) ELSE 0)
          /\ IF status = "error"
             THEN Return("error", RemoteMessage, <<>>) /\ UNCHANGED loc
             ELSE /\ loc' = [loc EXCEPT !.light_curves = light_curves]
                  /\ pc' = "post_token"
                  /\ UNCHANGED result
  /\ UNCHANGED <<env, store, toks, handler, args, nreq>>

PostQuery ==
  /\ handler = "ArchiveHandler.post" /\ pc = "post_query"
  /\ log' = Append(log, "aggregate")
  /\ \E status \in {"success", "error"} :
       LET light_curves == aggregate(RemoteRecords, args.light_curve_ids.v,
                                     loc.program_id_selector)
       IN /\ Send(Query("aggregate", {args.catalog.v}, args.light_curve_ids.v,
                        loc.program_id_selector, NaN, NaN, NaN, <<>>, {}),
                  status, IF status = "success" THEN Len(light_curves) ELSE 0)
          /\ IF status = "error"
             THEN Return("error", RemoteMessage, <<>>) /\ UNCHANGED loc
             ELSE IF Len(light_curves) = 0
             THEN /\ Return("error", "No data found for requested light_curve_ids", <<>>)
                  /\ UNCHANGED loc
             ELSE /\ loc' = [loc EXCEPT !.light_curves = light_curves]
                  /\ pc' = "post_token"
                  /\ UNCHANGED result
  /\ UNCHANGED <<env, store, toks, handler, args, nreq>>

PostToken ==
  /\ handler = "ArchiveHandler.post" /\ pc = "post_token"
  /\ token_seq' = token_seq + 1
  /\ tokens' = tokens \cup {token_seq + 1}
  /\ loc' = [loc EXCEPT !.token_id = token_seq + 1]
  /\ log' = Append(log, "create_token")
  /\ pc' = "post_session"
  /\ UNCHANGED <<env, store, handler, args, result, queries, nreq>>

\* with self.Session() as session: user = self.current_user
PostSession ==
  /\ handler = "ArchiveHandler.post" /\ pc = "post_session"
  /\ \E raises \in BOOLEAN :
       IF raises
       THEN Return("exception", "Session", <<>>) /\ UNCHANGED log
       ELSE log' = Append(log, "session") /\ pc' = "post_resolve" /\ UNCHANGED result
  /\ UNCHANGED <<env, store, toks, handler, args, loc, queries, nreq>>

coords(light_curves, field) ==
  [i \in 1..Len(light_curves) |->
     IF field = "ra" THEN light_curves[i].ra ELSE light_curves[i].dec]

\* PostResolve that names the entity after the first record's position
PostResolve_FirstRecord ==
  /\ handler = "ArchiveHandler.post" /\ pc = "post_resolve"
  /\ LET ra_mean == loc.light_curves[1].ra
         dec_mean == loc.light_curves[1].dec
     IN IF IsNone(args.obj_id) /\ radec_raises(ra_mean, dec_mean)
        THEN /\ loc' = [loc EXCEPT !.pending = [kind |-> "exception", msg |-> "ValueError",
                                                data |-> <<>>]]
             /\ pc' = "post_finally"
        ELSE /\ loc' = [loc EXCEPT !.ra_mean = ra_mean, !.dec_mean = dec_mean,
                          !.obj_id = IF IsNone(args.obj_id)
                                     THEN radec_to_iau_name(ra_mean, dec_mean, "ZTFJ")
                                     ELSE args.obj_id.v]
             /\ pc' = "post_source"
  /\ UNCHANGED <<env, store, toks, handler, args, result, log, queries, nreq>>

PostResolve ==
  /\ handler = "ArchiveHandler.post" /\ pc = "post_resolve"
  /\ LET ra_mean == mean(coords(loc.light_curves, "ra"))
         dec_mean == mean(coords(loc.light_curves, "dec"))
     IN IF IsNone(args.obj_id) /\ radec_raises(ra_mean, dec_mean)
        THEN /\ loc' = [loc EXCEPT !.pending = [kind |-> "exception", msg |-> "ValueError",
                                                data |-> <<>>]]
             /\ pc' = "post_finally"
        ELSE /\ loc' = [loc EXCEPT !.ra_mean = ra_mean, !.dec_mean = dec_mean,
                          !.obj_id = IF IsNone(args.obj_id)
                                     THEN radec_to_iau_name(ra_mean, dec_mean, "ZTFJ")
                                     ELSE args.obj_id.v]
             /\ pc' = "post_source"
  /\ UNCHANGED <<env, store, toks, handler, args, result, log, queries, nreq>>

Pending(kind, msg) == [kind |-> kind, msg |-> msg, data |-> <<>>]

\* the arguments of the post_source call
SourceData(id, ra, dec, group_ids) ==
  [id |-> id, ra |-> ra, dec |-> dec, group_ids |-> group_ids, origin |-> "Fritz"]

\* PostSource that calls post_source without looking for an existing source
PostSource_NoLookup ==
  /\ handler = "ArchiveHandler.post" /\ pc = "post_source"
  /\ \E raises \in BOOLEAN :
       /\ log' = log \o <<"select_source", "post_source">>
       /\ IF raises
          THEN /\ loc' = [loc EXCEPT !.pending = Pending("exception", "post_source"),
                            !.post_source_data =
                               SourceData(loc.obj_id, loc.ra_mean, loc.dec_mean,
                                          args.group_ids)]
               /\ pc' = "post_finally"
               /\ UNCHANGED <<sources, objs>>
          ELSE /\ sources' = sources \cup {loc.obj_id}
               /\ objs' = objs \cup {loc.obj_id}
               /\ loc' = [loc EXCEPT !.post_source_data =
                               SourceData(loc.obj_id, loc.ra_mean, loc.dec_mean,
                                          args.group_ids)]
               /\ pc' = "post_normalize"
  /\ UNCHANGED <<env, instrument, annotations, photometry, toks, handler, args,
                 result, queries, nreq>>

\* Source lookup, then post_source when there is none.  post_source commits
\* the new Obj and Source rows itself: the handler never commits its session.
PostSource ==
  /\ handler = "ArchiveHandler.post" /\ pc = "post_source"
  /\ IF loc.obj_id \in sources
     THEN /\ log' = Append(log, "select_source")
          /\ pc' = "post_normalize"
          /\ UNCHANGED <<sources, objs, loc>>
     ELSE \E raises \in BOOLEAN :
            /\ log' = log \o <<"select_source", "post_source">>
            /\ IF raises
               THEN /\ loc' = [loc EXCEPT !.pending = Pending("exception", "post_source"),
                                 !.post_source_data =
                                    SourceData(loc.obj_id, loc.ra_mean, loc.dec_mean,
                                               args.group_ids)]
                    /\ pc' = "post_finally"
                    /\ UNCHANGED <<sources, objs>>
               ELSE /\ sources' = sources \cup {loc.obj_id}
                    /\ objs' = objs \cup {loc.obj_id}
                    /\ loc' = [loc EXCEPT !.post_source_data =
                                    SourceData(loc.obj_id, loc.ra_mean, loc.dec_mean,
                                               args.group_ids)]
                    /\ pc' = "post_normalize"
  /\ UNCHANGED <<env, instrument, annotations, photometry, toks, handler, args,
                 result, queries, nreq>>

PostNormalize ==
  /\ handler = "ArchiveHandler.post" /\ pc = "post_normalize"
  /\ IF make_photometry_raises(loc.light_curves)
     THEN /\ loc' = [loc EXCEPT !.pending = Pending("exception", "ValueError")]
          /\ pc' = "post_finally"
     ELSE /\ loc' = [loc EXCEPT !.df_photometry = make_photometry(loc.light_curves, TRUE)]
          /\ pc' = "post_instrument"
  /\ UNCHANGED <<env, store, toks, handler, args, result, log, queries, nreq>>

PostInstrument ==
  /\ handler = "ArchiveHandler.post" /\ pc = "post_instrument"
  /\ log' = Append(log, "select_instrument")
  /\ IF ~instrument
     THEN /\ loc' = [loc EXCEPT !.pending =
                       Pending("error", "ZTF instrument not found in the system")]
          /\ pc' = "post_finally"
     ELSE pc' = "post_streams" /\ UNCHANGED loc
  /\ UNCHANGED <<env, store, toks, handler, args, result, queries, nreq>>

\* PostStreams that leaves a row without stream id when its program id has
\* no entry in the map
PostStreams_SkipUnmapped ==
  /\ handler = "ArchiveHandler.post" /\ pc = "post_streams"
  /\ log' = Append(log, "select_streams")
  /\ LET map == ztf_program_id_to_stream_id(user_streams)
         df == loc.df_photometry
     IN /\ loc' = [loc EXCEPT !.stream_ids =
                     [i \in 1..Len(df) |->
                        IF df[i].programid \in DOMAIN map THEN map[df[i].programid]
                        ELSE 0]]
        /\ pc' = "post_ingest"
  /\ UNCHANGED <<env, store, toks, handler, args, result, queries, nreq>>

PostStreams ==
  /\ handler = "ArchiveHandler.post" /\ pc = "post_streams"
  /\ log' = Append(log, "select_streams")
  /\ LET map == ztf_program_id_to_stream_id(user_streams)
         df == loc.df_photometry
     IN IF \E i \in 1..Len(df) : df[i].programid \notin DOMAIN map
        THEN /\ loc' = [loc EXCEPT !.pending = Pending("exception", "KeyError")]
             /\ pc' = "post_finally"
        ELSE /\ loc' = [loc EXCEPT !.stream_ids =
                          [i \in 1..Len(df) |-> map[df[i].programid]]]
             /\ pc' = "post_ingest"
  /\ UNCHANGED <<env, store, toks, handler, args, result, queries, nreq>>

\* PostIngest that deletes the token before the ingestion call
PostIngest_RevokeFirst ==
  /\ handler = "ArchiveHandler.post" /\ pc = "post_ingest"
  /\ tokens' = tokens \ {loc.token_id}
  /\ IF Len(loc.df_photometry) > 0
     THEN /\ log' = log \o <<"delete_token", "add_external_photometry">>
          /\ photometry' = photometry \cup
               {[obj_id |-> loc.obj_id, rows |-> loc.df_photometry,
                 stream_ids |-> loc.stream_ids]}
     ELSE UNCHANGED <<log, photometry>>
  /\ pc' = "post_finally"
  /\ UNCHANGED <<env, sources, objs, instrument, annotations, token_seq, handler, args,
                 loc, result, queries, nreq>>

\* PostIngest that hands over the first normalized row only
PostIngest_FirstRowOnly ==
  /\ handler = "ArchiveHandler.post" /\ pc = "post_ingest"
  /\ IF Len(loc.df_photometry) > 0
     THEN \E raises \in BOOLEAN :
            /\ log' = Append(log, "add_external_photometry")
            /\ IF raises
               THEN /\ loc' = [loc EXCEPT !.pending =
                                 Pending("exception", "add_external_photometry")]
                    /\ UNCHANGED photometry
               ELSE /\ photometry' = photometry \cup
                         {[obj_id |-> loc.obj_id, rows |-> SubSeq(loc.df_photometry, 1, 1),
                           stream_ids |-> SubSeq(loc.stream_ids, 1, 1)]}
                    /\ UNCHANGED loc
     ELSE UNCHANGED <<log, loc, photometry>>
  /\ pc' = "post_finally"
  /\ UNCHANGED <<env, sources, objs, instrument, annotations, toks, handler, args,
                 result, queries, nreq>>

PostIngest ==
  /\ handler = "ArchiveHandler.post" /\ pc = "post_ingest"
  /\ IF Len(loc.df_photometry) > 0
     THEN \E raises \in BOOLEAN :
            /\ log' = Append(log, "add_external_photometry")
            /\ IF raises
               THEN /\ loc' = [loc EXCEPT !.pending =
                                 Pending("exception", "add_external_photometry")]
                    /\ UNCHANGED photometry
               ELSE /\ photometry' = photometry \cup
                         {[obj_id |-> loc.obj_id, rows |-> loc.df_photometry,
                           stream_ids |-> loc.stream_ids]}
                    /\ UNCHANGED loc
     ELSE UNCHANGED <<log, loc, photometry>>
  /\ pc' = "post_finally"
  /\ UNCHANGED <<env, sources, objs, instrument, annotations, toks, handler, args,
                 result, queries, nreq>>

\* finally: delete_token(token_id); then the pending return or exception,
\* or self.success(data={"obj_id": obj_id})
PostFinally ==
  /\ handler = "ArchiveHandler.post" /\ pc = "post_finally"
  /\ tokens' = tokens \ {loc.token_id}
  /\ log' = Append(log, "delete_token")
  /\ IF loc.pending.kind = "none"
     THEN Return("success", "", <<loc.obj_id>>)
     ELSE Return(loc.pending.kind, loc.pending.msg, <<>>)
  /\ UNCHANGED <<env, store, token_seq, handler, args, loc, queries, nreq>>

ArchivePost ==
  \/ PostBegin \/ PostValidate \/ PostSelector \/ PostQuery \/ PostToken
  \/ PostSession \/ PostResolve \/ PostSource \/ PostNormalize \/ PostInstrument
  \/ PostStreams \/ PostIngest \/ PostFinally

\* ------------------------------------------------- position arguments
Txt(chars) == Str(chars)

Unit(u) == Str(<<u>>)

Outcome(kind, msg) == [kind |-> kind, msg |-> msg]

\* The validation of (ra, dec, radius, radius_units) shared by the three
\* position-query handlers; only CrossMatchHandler.get checks the ranges
\* of ra and dec.  The outcome is an error, "near" (run the cone search)
\* or "none" (the method ends without reporting anything).
PositionOutcome(ra, dec, radius, radius_units, check_radec) ==
  LET position_tuple == <<ra, dec, radius, radius_units>>
      incomplete == ~all(position_tuple) /\ any(position_tuple)
  IN IF incomplete /\ IsNone(ra)
     THEN Outcome("error", "Missing required parameter: ra")
     ELSE IF incomplete /\ IsNone(dec)
     THEN Outcome("error", "Missing required parameter: dec")
     ELSE IF incomplete /\ IsNone(radius)
     THEN Outcome("error", "Missing required parameter: radius")
     ELSE IF incomplete /\ IsNone(radius_units)
     THEN Outcome("error", "Missing required parameter: radius_units")
     ELSE IF ~all(position_tuple)
     THEN Outcome("none", "")
     ELSE IF ~(radius_units.t = "str"
               /\ radius_units.v \in {<<"deg">>, <<"arcmin">>, <<"arcsec">>})
     THEN Outcome("error", "Invalid radius_units value.")
     ELSE IF floatRaises(ra) \/ floatRaises(dec) \/ floatRaises(radius)
     THEN Outcome("error", "Invalid (non-float) value provided.")
     ELSE IF check_radec /\ ~(Le(0, float(ra)) /\ Lt(float(ra), 360))
     THEN Outcome("error", "Invalid R.A. value provided")
     ELSE IF check_radec /\ ~(Le(0 - 90, float(dec)) /\ LeN(float(dec), 90))
     THEN Outcome("error", "Invalid Decl. value provided")
     ELSE IF \/ radius_units.v = <<"deg">> /\ Gt(float(radius), 1)
             \/ radius_units.v = <<"arcmin">> /\ Gt(float(radius), 60)
             \/ radius_units.v = <<"arcsec">> /\ Gt(float(radius), 3600)
     THEN Outcome("error", "Radius must be <= 1.0 deg")
     ELSE Outcome("near", "")

\* query-string values of the position arguments
PresenceArgs ==
  [ra : {None, Txt(<<>>), Txt(<<"1", "0">>)},
   dec : {None, Txt(<<>>), Txt(<<"1", "0">>)},
   radius : {None, Txt(<<>>), Txt(<<"2">>)},
   radius_units : {None, Txt(<<>>), Unit("arcsec")}]

RadiusArgs ==
  [ra : {Txt(<<"1", "0">>)},
   dec : {Txt(<<"1", "0">>)},
   radius : {Txt(<<"1">>), Txt(<<"2">>), Txt(<<"6", "0">>), Txt(<<"6", "1">>),
             Txt(<<"3", "6", "0", "0">>), Txt(<<"3", "6", "0", "1">>),
             Txt(<<"n", "a", "n">>), Txt(<<"-", "1">>), Txt(<<"a", "b">>)},
   radius_units : {Unit("deg"), Unit("arcmin"), Unit("arcsec"), Unit("parsec")}]

RaDecArgs ==
  [ra : {Txt(<<"0">>), Txt(<<"3", "6", "0">>), Txt(<<"-", "1">>), Txt(<<"n", "a", "n">>),
         Txt(<<"a", "b">>)},
   dec : {Txt(<<"9", "0">>), Txt(<<"9", "1">>), Txt(<<"-", "9", "1">>)},
   radius : {Txt(<<"2">>), Txt(<<"6", "1">>)},
   radius_units : {Unit("arcmin")}]

PositionArgs == PresenceArgs \cup RadiusArgs \cup RaDecArgs

\* ------------------------------------------------- ArchiveCatalogsHandler.get
CatalogsGet ==
  /\ pc = "idle"
  /\ nreq < MaxRequests
  /\ nreq' = nreq + 1
  /\ handler' = "ArchiveCatalogsHandler.get"
  /\ args' = <<>>
  /\ loc' = <<>>
  /\ IF ~gloria
     THEN /\ Return("error", "Gloria connection unavailable.", <<>>)
          /\ log' = <<>>
          /\ queries' = <<>>
     ELSE /\ log' = <<"info">>
          /\ \E status \in {"success", "error"} :
               /\ queries' = << [InfoQuery EXCEPT !.status = status] >>
               /\ IF status = "success"
                  THEN Return("success", "", <<catalog_names>>)
                  ELSE \* .get("data") is None and is reported as the result
                       Return("success", "", <<>>)
  /\ UNCHANGED <<env, store, toks>>

\* ------------------------------------------------- CrossMatchHandler.get
CrossMatchBegin ==
  /\ nreq < MaxRequests
  /\ \E a \in PositionArgs : Begin("CrossMatchHandler.get", a, "cm_info")
  /\ loc' = [catalogs |-> {}]
  /\ nreq' = nreq + 1
  /\ UNCHANGED <<env, store, toks>>

\* catalogs that are not ZTF/PTF/PGIR/WNTR related
CrossMatchCatalogs(available_catalog_names) ==
  {catalog \in available_catalog_names :
     /\ ~startswith(catalog, <<"ZTF">>)
     /\ ~startswith(catalog, <<"PTF">>)
     /\ ~startswith(catalog, <<"PGIR">>)
     /\ ~startswith(catalog, <<"WNTR">>)}

\* CrossMatchInfo without the test of the client
CrossMatchInfo_NoClientCheck ==
  /\ handler = "CrossMatchHandler.get" /\ pc = "cm_info"
  /\ log' = Append(log, "info")
  /\ IF ~gloria
     THEN /\ Return("exception", "AttributeError", <<>>)
          /\ UNCHANGED <<queries, loc>>
     ELSE /\ Send(InfoQuery, "success", 0)
          /\ loc' = [loc EXCEPT !.catalogs = CrossMatchCatalogs(catalog_names)]
          /\ pc' = "cm_validate"
          /\ UNCHANGED result
  /\ UNCHANGED <<env, store, toks, handler, args, nreq>>

CrossMatchInfo ==
  /\ handler = "CrossMatchHandler.get" /\ pc = "cm_info"
  /\ IF ~gloria
     THEN /\ Return("error", "Gloria connection unavailable.", <<>>)
          /\ UNCHANGED <<log, queries, loc>>
     ELSE /\ log' = Append(log, "info")
          /\ \E status \in {"success", "error"} :
               /\ Send(InfoQuery, status, 0)
               /\ IF status = "error"
                  THEN \* .get("data") is None: iterating it raises TypeError
                       Return("exception", "TypeError", <<>>) /\ UNCHANGED loc
                  ELSE IF CrossMatchCatalogs(catalog_names) = {}
                  THEN /\ Return("error",
                                 "No catalogs available to run cross-match against.", <<>>)
                       /\ UNCHANGED loc
                  ELSE /\ loc' = [loc EXCEPT !.catalogs = CrossMatchCatalogs(catalog_names)]
                       /\ pc' = "cm_validate"
                       /\ UNCHANGED result
  /\ UNCHANGED <<env, store, toks, handler, args, nreq>>

\* CrossMatchValidate that tests the radius cap after sending the cone search
CrossMatchValidate_CapAfterQuery ==
  /\ handler = "CrossMatchHandler.get" /\ pc = "cm_validate"
  /\ LET o == PositionOutcome(args.ra, args.dec, args.radius, args.radius_units, TRUE)
     IN /\ IF o.kind = "near"
           THEN pc' = "cm_near" /\ UNCHANGED result
           ELSE Return(o.kind, o.msg, <<>>)
        /\ IF o.msg = "Radius must be <= 1.0 deg"
           THEN Send(Query("near", loc.catalogs, <<>>, {}, float(args.ra), float(args.dec),
                           float(args.radius), args.radius_units.v, {}), "success", 0)
           ELSE UNCHANGED queries
  /\ UNCHANGED <<env, store, toks, handler, args, loc, log, nreq>>

CrossMatchValidate ==
  /\ handler = "CrossMatchHandler.get" /\ pc = "cm_validate"
  /\ LET o == PositionOutcome(args.ra, args.dec, args.radius, args.radius_units, TRUE)
     IN IF o.kind = "near"
        THEN pc' = "cm_near" /\ UNCHANGED result
        ELSE Return(o.kind, o.msg, <<>>)
  /\ UNCHANGED <<env, store, toks, handler, args, loc, log, queries, nreq>>

\* sources the remote service may find in a cone, per catalog:
\* [_id, longitude = ra - 180, latitude]
NearMatches == {<<>>, << [id |-> 7, lon |-> 0 - 170, lat |-> 10] >>}

CrossMatchNear ==
  /\ handler = "CrossMatchHandler.get" /\ pc = "cm_near"
  /\ log' = Append(log, "near")
  /\ \E status \in {"success", "error"}, matches \in NearMatches :
       /\ status = "error" => matches = <<>>
       /\ Send(Query("near", loc.catalogs, <<>>, {}, float(args.ra), float(args.dec),
                     float(args.radius), args.radius_units.v, {}),
               status, Len(matches))
       /\ IF status = "success"
          THEN Return("success", "",
                      [i \in 1..Len(matches) |->
                         [id |-> ToString(matches[i].id), ra |-> matches[i].lon + 180,
                          dec |-> matches[i].lat]])
          ELSE Return("error", RemoteMessage, <<>>)
  /\ UNCHANGED <<env, store, toks, handler, args, loc, nreq>>

CrossMatch == CrossMatchBegin \/ CrossMatchInfo \/ CrossMatchValidate \/ CrossMatchNear

\* ------------------------------------------------- ArchiveHandler.get
ValidPosition ==
  [ra |-> Txt(<<"1", "0">>), dec |-> Txt(<<"1", "0">>), radius |-> Txt(<<"2">>),
   radius_units |-> Unit("arcsec")]

WithCatalog(p, c) ==
  [ra |-> p.ra, dec |-> p.dec, radius |-> p.radius, radius_units |-> p.radius_units,
   catalog |-> c]

ArchiveGetArgs ==
  {WithCatalog(p, Str(ZTF_sources_DR5)) : p \in PositionArgs}
    \cup {WithCatalog(ValidPosition, c) :
            c \in {None, Str(<<"my_", "ZTF", "_source", "s">>), Str(<<"Gaia", "_DR2">>),
                   Str(ZTF_source_features_DR5)}}

ArchiveGetBegin ==
  /\ nreq < MaxRequests
  /\ \E a \in ArchiveGetArgs : Begin("ArchiveHandler.get", a, "ag_info")
  /\ loc' = [available_catalogs |-> {}, program_id_selector |-> {}, light_curve_ids |-> <<>>]
  /\ nreq' = nreq + 1
  /\ UNCHANGED <<env, store, toks>>

ArchiveGetInfo ==
  /\ handler = "ArchiveHandler.get" /\ pc = "ag_info"
  /\ IF ~gloria
     THEN /\ Return("error", "Gloria connection unavailable.", <<>>)
          /\ UNCHANGED <<log, queries, loc>>
     ELSE /\ log' = Append(log, "info")
          /\ \E status \in {"success", "error"} :
               /\ Send(InfoQuery, status, 0)
               /\ IF status = "error"
                  THEN Return("exception", "TypeError", <<>>) /\ UNCHANGED loc
                  ELSE /\ loc' = [loc EXCEPT !.available_catalogs =
                                    {catalog \in catalog_names :
                                       contains(catalog, ZTF_sources)}]
                       /\ pc' = "ag_selector"
                       /\ UNCHANGED result
  /\ UNCHANGED <<env, store, toks, handler, args, nreq>>

ArchiveGetSelector ==
  /\ handler = "ArchiveHandler.get" /\ pc = "ag_selector"
  /\ log' = Append(log, "session")
  /\ loc' = [loc EXCEPT !.program_id_selector = program_id_selector(user_streams)]
  /\ pc' = "ag_validate"
  /\ UNCHANGED <<env, store, toks, handler, args, result, queries, nreq>>

ArchiveGetValidate ==
  /\ handler = "ArchiveHandler.get" /\ pc = "ag_validate"
  /\ LET o == PositionOutcome(args.ra, args.dec, args.radius, args.radius_units, FALSE)
     IN IF IsNone(args.catalog)
        THEN Return("exception", "MissingArgumentError", <<>>)
        ELSE IF args.catalog.v \notin loc.available_catalogs
        THEN Return("error", "Catalog not available", <<>>)
        ELSE IF o.kind = "near"
        THEN pc' = "ag_near" /\ UNCHANGED result
        ELSE Return(o.kind, o.msg, <<>>)
  /\ UNCHANGED <<env, store, toks, handler, args, loc, log, queries, nreq>>

\* identifiers the remote service may find in a cone
NearIds == {<<>>, <<1>>, <<1, 2>>}

\* ArchiveGetNear that does not stop on an empty identifier list
ArchiveGetNear_NoEmptyCase ==
  /\ handler = "ArchiveHandler.get" /\ pc = "ag_near"
  /\ log' = Append(log, "near")
  /\ \E status \in {"success", "error"}, light_curve_ids \in NearIds :
       /\ status = "error" => light_curve_ids = <<>>
       /\ Send(Query("near", {args.catalog.v}, <<>>, {}, float(args.ra), float(args.dec),
                     float(args.radius), args.radius_units.v, {"_id"}),
               status, Len(light_curve_ids))
       /\ IF status = "error"
          THEN Return("error", RemoteMessage, <<>>) /\ UNCHANGED loc
          ELSE /\ loc' = [loc EXCEPT !.light_curve_ids = light_curve_ids]
               /\ pc' = "ag_aggregate"
               /\ UNCHANGED result
  /\ UNCHANGED <<env, store, toks, handler, args, nreq>>

ArchiveGetNear ==
  /\ handler = "ArchiveHandler.get" /\ pc = "ag_near"
  /\ log' = Append(log, "near")
  /\ \E status \in {"success", "error"}, light_curve_ids \in NearIds :
       /\ status = "error" => light_curve_ids = <<>>
       /\ Send(Query("near", {args.catalog.v}, <<>>, {}, float(args.ra), float(args.dec),
                     float(args.radius), args.radius_units.v, {"_id"}),
               status, Len(light_curve_ids))
       /\ IF status = "error"
          THEN Return("error", RemoteMessage, <<>>) /\ UNCHANGED loc
          ELSE IF Len(light_curve_ids) = 0
          THEN Return("success", "", <<>>) /\ UNCHANGED loc
          ELSE /\ loc' = [loc EXCEPT !.light_curve_ids = light_curve_ids]
               /\ pc' = "ag_aggregate"
               /\ UNCHANGED result
  /\ UNCHANGED <<env, store, toks, handler, args, nreq>>

\* ArchiveGetAggregate keyed by the first identifier only
ArchiveGetAggregate_FirstIdOnly ==
  /\ handler = "ArchiveHandler.get" /\ pc = "ag_aggregate"
  /\ log' = Append(log, "aggregate")
  /\ \E status \in {"success", "error"} :
       LET light_curves == aggregate(RemoteRecords, <<loc.light_curve_ids[1]>>,
                                     loc.program_id_selector)
       IN /\ Send(Query("aggregate", {args.catalog.v}, <<loc.light_curve_ids[1]>>,
                        loc.program_id_selector, NaN, NaN, NaN, <<>>, {}),
                  status, IF status = "success" THEN Len(light_curves) ELSE 0)
          /\ IF status = "success"
             THEN Return("success", "", light_curves)
             ELSE Return("error", RemoteMessage, <<>>)
  /\ UNCHANGED <<env, store, toks, handler, args, loc, nreq>>

ArchiveGetAggregate ==
  /\ handler = "ArchiveHandler.get" /\ pc = "ag_aggregate"
  /\ log' = Append(log, "aggregate")
  /\ \E status \in {"success", "error"} :
       LET light_curves == aggregate(RemoteRecords, loc.light_curve_ids,
                                     loc.program_id_selector)
       IN /\ Send(Query("aggregate", {args.catalog.v}, loc.light_curve_ids,
                        loc.program_id_selector, NaN, NaN, NaN, <<>>, {}),
                  status, IF status = "success" THEN Len(light_curves) ELSE 0)
          /\ IF status = "success"
             THEN Return("success", "", light_curves)
             ELSE Return("error", RemoteMessage, <<>>)
  /\ UNCHANGED <<env, store, toks, handler, args, loc, nreq>>

ArchiveGet ==
  \/ ArchiveGetBegin \/ ArchiveGetInfo \/ ArchiveGetSelector \/ ArchiveGetValidate
  \/ ArchiveGetNear \/ ArchiveGetAggregate

\* ------------------------------------------------- ScopeFeaturesHandler.post
\* a key that the JSON body does not have
Absent == [t |-> "absent"]

IsAbsent(x) == x.t = "absent"

\* data.pop(key, default)
pop(x, default) == IF IsAbsent(x) THEN default ELSE x

ScopeArg(id, ra, dec, catalog, radius, radius_units) ==
  [id |-> id, ra |-> ra, dec |-> dec, catalog |-> catalog, radius |-> radius,
   radius_units |-> radius_units]

ScopeArgs ==
  {ScopeArg(Str("A"), ra, dec, Absent, radius, radius_units) :
     ra \in {None, Num(0), Num(10)}, dec \in {None, Num(0), Num(10)},
     radius \in {Absent, None, Num(0)}, radius_units \in {Absent, None, Txt(<<>>)}}
  \cup
  {ScopeArg(Str("A"), Num(10), Num(10), Absent, radius, radius_units) :
     radius \in {Num(1), Num(2), Num(60), Num(61), Num(3600), Num(3601),
                 Txt(<<"n", "a", "n">>), Txt(<<"6", "1">>), Txt(<<"a", "b">>)},
     radius_units \in {Unit("deg"), Unit("arcmin"), Unit("arcsec"), Absent, Num(1)}}
  \cup
  {ScopeArg(id, ra, Num(10), catalog, Absent, Absent) :
     id \in {Str("A"), Absent}, ra \in {Num(10), Absent},
     catalog \in {Str(ZTF_source_features_DR5), Str(ZTF_sources_DR5),
                  Str(<<"my_", "ZTF", "_source", "_features">>)}}

ScopeBegin ==
  /\ nreq < MaxRequests
  /\ \E a \in ScopeArgs : Begin("ScopeFeaturesHandler.post", a, "sf_info")
  /\ loc' = [available_catalogs |-> {}, catalog |-> <<>>, radius |-> None,
             radius_units |-> None, response |-> [status |-> "", ids |-> <<>>],
             annotation |-> <<>>]
  /\ nreq' = nreq + 1
  /\ UNCHANGED <<env, store, toks>>

ScopeInfo ==
  /\ handler = "ScopeFeaturesHandler.post" /\ pc = "sf_info"
  /\ IF ~gloria
     THEN /\ Return("error", "Gloria connection unavailable.", <<>>)
          /\ UNCHANGED <<log, queries, loc>>
     ELSE /\ log' = Append(log, "info")
          /\ \E status \in {"success", "error"} :
               /\ Send(InfoQuery, status, 0)
               /\ IF status = "error"
                  THEN Return("exception", "TypeError", <<>>) /\ UNCHANGED loc
                  ELSE /\ loc' = [loc EXCEPT !.available_catalogs =
                                    {catalog \in catalog_names :
                                       contains(catalog, ZTF_source_features)}]
                       /\ pc' = "sf_validate"
                       /\ UNCHANGED result
  /\ UNCHANGED <<env, store, toks, handler, args, nreq>>

ScopeValidate ==
  /\ handler = "ScopeFeaturesHandler.post" /\ pc = "sf_validate"
  /\ LET catalog == pop(args.catalog, Str(ZTF_source_features_DR5))
         radius == pop(args.radius, Num(2))
         radius_units == pop(args.radius_units, Unit("arcsec"))
         o == PositionOutcome(args.ra, args.dec, radius, radius_units, FALSE)
     IN IF IsAbsent(args.id) \/ IsAbsent(args.ra) \/ IsAbsent(args.dec)
        THEN Return("exception", "KeyError", <<>>) /\ UNCHANGED loc
        ELSE IF catalog.v \notin loc.available_catalogs
        THEN Return("error", "Catalog not available", <<>>) /\ UNCHANGED loc
        ELSE IF o.kind = "near"
        THEN /\ loc' = [loc EXCEPT !.catalog = catalog.v, !.radius = radius,
                          !.radius_units = radius_units]
             /\ pc' = "sf_near"
             /\ UNCHANGED result
        ELSE Return(o.kind, o.msg, <<>>) /\ UNCHANGED loc
  /\ UNCHANGED <<env, store, toks, handler, args, log, queries, nreq>>

ScopeNear ==
  /\ handler = "ScopeFeaturesHandler.post" /\ pc = "sf_near"
  /\ log' = Append(log, "near")
  /\ \E status \in {"success", "error"}, light_curve_ids \in NearIds :
       /\ status = "error" => light_curve_ids = <<>>
       /\ Send(Query("near", {loc.catalog}, <<>>, {}, float(args.ra), float(args.dec),
                     float(loc.radius), loc.radius_units.v, {"_id"}),
               status, Len(light_curve_ids))
       /\ loc' = [loc EXCEPT !.response = [status |-> status, ids |-> light_curve_ids]]
  /\ pc' = "sf_session"
  /\ UNCHANGED <<env, store, toks, handler, args, result, nreq>>

\* the Obj and Group lookups made before the response is looked at
ScopeSession ==
  /\ handler = "ScopeFeaturesHandler.post" /\ pc = "sf_session"
  /\ log' = log \o <<"session", "select_obj">>
  /\ \E groups_found \in BOOLEAN :
       IF args.id.v \notin objs
       THEN Return("error", "Cannot find source", <<>>)
       ELSE IF ~groups_found
       THEN Return("error", "Cannot find one or more groups", <<>>)
       ELSE IF loc.response.status # "success"
       THEN Return("error", RemoteMessage, <<>>)
       ELSE IF Len(loc.response.ids) = 0
       THEN Return("success", "", <<>>)
       ELSE pc' = "sf_find" /\ UNCHANGED result
  /\ UNCHANGED <<env, store, toks, handler, args, loc, queries, nreq>>

\* what the find query may return: no record, a record of features, or a
\* record whose values are all null
FindData == {"empty", "features", "nulls"}

ScopeFind ==
  /\ handler = "ScopeFeaturesHandler.post" /\ pc = "sf_find"
  /\ log' = Append(log, "find")
  /\ \E status \in {"success", "error"}, data \in FindData :
       /\ status = "error" => data = "empty"
       /\ Send(Query("find", {loc.catalog}, <<loc.response.ids[1]>>, {}, NaN, NaN, NaN,
                     <<>>, {"_id", "features"}),
               status, IF data = "empty" THEN 0 ELSE 1)
       /\ IF status = "error"
          THEN Return("error", RemoteMessage, <<>>) /\ UNCHANGED loc
          ELSE IF data = "empty"
          THEN Return("exception", "IndexError", <<>>) /\ UNCHANGED loc
          ELSE IF data = "nulls"
          THEN Return("error", "No SCoPe features available.", <<>>) /\ UNCHANGED loc
          ELSE /\ loc' = [loc EXCEPT !.annotation = <<args.id.v, loc.catalog, "author">>]
               /\ pc' = "sf_commit"
               /\ UNCHANGED result
  /\ UNCHANGED <<env, store, toks, handler, args, nreq>>

\* the store's uniqueness constraint on (obj_id, origin, author) of the
\* Annotation rows: a commit that would store a second row raises
IntegrityError(annotation, rows) == annotation \in rows

\* ScopeCommit that goes on after the IntegrityError of the commit
ScopeCommit_ConflictIgnored ==
  /\ handler = "ScopeFeaturesHandler.post" /\ pc = "sf_commit"
  /\ log' = log \o <<"commit", "push_all">>
  /\ Return("success", "", <<>>)
  /\ IF IntegrityError(loc.annotation, annotations)
     THEN UNCHANGED annotations
     ELSE annotations' = annotations \cup {loc.annotation}
  /\ UNCHANGED <<env, sources, objs, instrument, photometry, toks, handler, args, loc,
                 queries, nreq>>

\* session.add_all; session.commit(); except IntegrityError
ScopeCommit ==
  /\ handler = "ScopeFeaturesHandler.post" /\ pc = "sf_commit"
  /\ IF IntegrityError(loc.annotation, annotations)
     THEN /\ Return("error", "Annotation already posted.", <<>>)
          /\ log' = Append(log, "commit")
          /\ UNCHANGED annotations
     ELSE /\ annotations' = annotations \cup {loc.annotation}
          /\ log' = log \o <<"commit", "push_all">>
          /\ Return("success", "", <<>>)
  /\ UNCHANGED <<env, sources, objs, instrument, photometry, toks, handler, args, loc,
                 queries, nreq>>

ScopeFeatures ==
  \/ ScopeBegin \/ ScopeInfo \/ ScopeValidate \/ ScopeNear \/ ScopeSession
  \/ ScopeFind \/ ScopeCommit

\* ------------------------------------------------- specifications
Next == ArchivePost \/ CatalogsGet \/ CrossMatch \/ ArchiveGet \/ ScopeFeatures \/ Respond

\* all handlers, for one store: the caller has the three ZTF streams
InitOne ==
  /\ Init
  /\ gloria => /\ Cardinality(user_streams) = 3
               /\ sources = {}
               /\ instrument

Spec == InitOne /\ [][Next]_vars

\* the ingestion handler alone
NextPost == ArchivePost \/ Respond

SpecPost == Init /\ [][NextPost]_vars

\* the query handlers alone
NextQuery == CatalogsGet \/ CrossMatch \/ ArchiveGet \/ ScopeFeatures \/ Respond

SpecQuery == Init /\ [][NextQuery]_vars

\* the two light-curve handlers, for every stream configuration of the caller
InitLightCurves ==
  /\ Init
  /\ gloria
  /\ catalog_names = {ZTF_sources_DR5, ZTF_source_features_DR5}
  /\ sources = {}
  /\ instrument

NextLightCurves == ArchivePost \/ ArchiveGet \/ Respond

SpecLightCurves == InitLightCurves /\ [][NextLightCurves]_vars

\* inputs of make_photometry: up to MaxCurves light curves of up to
\* MaxEpochs epochs each, flagged or not; the epochs are not in time order
FlagSeqs == UNION {[1..n -> {0, 1}] : n \in 0..MaxEpochs}

Hjd(i, j) == 4900100 - (10 * i + j)

\* light curve i of an input whose filter codes go round from first
LightCurve(i, first, flags) ==
  [id |-> i, ra |-> 180 * Deg, dec |-> 0, filter |-> ((first + i) % 3) + 1,
   data |-> [j \in 1..Len(flags) |-> Epoch(Hjd(i, j), flags[j], 1)]]

LightCurveInputs(first) ==
  UNION {{[i \in 1..n |-> LightCurve(i, first, flags[i])] : flags \in [1..n -> FlagSeqs]} :
           n \in 0..MaxCurves}

InitNormalize ==
  /\ gloria = TRUE
  /\ catalog_names = {}
  /\ user_streams = {}
  /\ sources = {}
  /\ objs = {}
  /\ instrument = TRUE
  /\ annotations = {}
  /\ photometry = {}
  /\ tokens = {}
  /\ token_seq = 0
  /\ handler = "make_photometry"
  /\ pc = "mp_call"
  /\ \E first \in 1..3 :
       args \in [light_curves : LightCurveInputs(first), drop_flagged : BOOLEAN]
  /\ loc = <<>>
  /\ result = NoResult
  /\ log = <<>>
  /\ queries = <<>>
  /\ nreq = 0
  /\ parked = Idle

\* df = make_photometry(light_curves, drop_flagged)
MakePhotometry ==
  /\ handler = "make_photometry" /\ pc = "mp_call"
  /\ IF make_photometry_raises(args.light_curves)
     THEN Return("exception", "ValueError", <<>>)
     ELSE Return("success", "", make_photometry(args.light_curves, args.drop_flagged))
  /\ UNCHANGED <<env, store, toks, handler, args, loc, log, queries, nreq>>

NextNormalize == MakePhotometry

SpecNormalize == InitNormalize /\ [][NextNormalize]_vars

\* arguments of radec_to_iau_name: positions at both ends of minutes of
\* right ascension and of declination, and positions out of range
Near(start, width) ==
  {start + k : k \in 0..EdgeTicks} \cup {start + width - 1 - k : k \in 0..EdgeTicks}

RaSamples ==
  UNION {Near(h * 15 * Deg + m * (Deg \div 4), Deg \div 4) :
           h \in {0, 12, 23}, m \in {0, 30, 59}}
    \cup {0 - 1, 360 * Deg, 180 * Deg + 30}

DecSamples ==
  UNION {{x, 0 - x} : x \in UNION {Near(d * Deg + m * (Deg \div 60), Deg \div 60) :
                                    d \in {0, 1, 89}, m \in {0, 59}}}
    \cup {90 * Deg, 0 - 90 * Deg, 90 * Deg + 1, 0 - 90 * Deg - 1}

InitName ==
  /\ gloria = TRUE
  /\ catalog_names = {}
  /\ user_streams = {}
  /\ sources = {}
  /\ objs = {}
  /\ instrument = TRUE
  /\ annotations = {}
  /\ photometry = {}
  /\ tokens = {}
  /\ token_seq = 0
  /\ handler = "radec_to_iau_name"
  /\ pc = "name_call"
  /\ args \in [ra : RaSamples, dec : DecSamples, prefix : {"ZTFJ", "J"}]
  /\ loc = <<>>
  /\ result = NoResult
  /\ log = <<>>
  /\ queries = <<>>
  /\ nreq = 0
  /\ parked = Idle

\* name = radec_to_iau_name(ra, dec, prefix)
RadecToIauName ==
  /\ handler = "radec_to_iau_name" /\ pc = "name_call"
  /\ IF radec_raises(args.ra, args.dec)
     THEN Return("exception", "ValueError", <<>>)
     ELSE Return("success", "", <<radec_to_iau_name(args.ra, args.dec, args.prefix)>>)
  /\ UNCHANGED <<env, store, toks, handler, args, loc, log, queries, nreq>>

NextName == RadecToIauName

SpecName == InitName /\ [][NextName]_vars

\* two server processes: the scheduler takes the running request off and
\* puts the request of the other process on
Switch ==
  /\ parked' = [handler |-> handler, pc |-> pc, args |-> args, loc |-> loc,
                result |-> result, log |-> log, queries |-> queries]
  /\ handler' = parked.handler
  /\ pc' = parked.pc
  /\ args' = parked.args
  /\ loc' = parked.loc
  /\ result' = parked.result
  /\ log' = parked.log
  /\ queries' = parked.queries
  /\ UNCHANGED <<gloria, catalog_names, user_streams, store, toks, nreq>>

\* a store that has the object "A", and a service with two feature catalogs
InitScope ==
  /\ gloria = TRUE
  /\ catalog_names = {ZTF_source_features_DR5, <<"my_", "ZTF", "_source", "_features">>}
  /\ user_streams = {}
  /\ sources = {"A"}
  /\ objs = {"A"}
  /\ instrument = TRUE
  /\ annotations = {}
  /\ photometry = {}
  /\ tokens = {}
  /\ token_seq = 0
  /\ handler = "idle"
  /\ pc = "idle"
  /\ args = <<>>
  /\ loc = <<>>
  /\ result = NoResult
  /\ log = <<>>
  /\ queries = <<>>
  /\ nreq = 0
  /\ parked = Idle

\* a request with a complete position and the default radius
ScopeBeginComplete ==
  /\ ScopeBegin
  /\ ~IsAbsent(args'.id)
  /\ args'.ra = Num(10) /\ args'.dec = Num(10)
  /\ IsAbsent(args'.radius) /\ IsAbsent(args'.radius_units)

\* ScopeFeaturesHandler.post in two processes over one store
NextScope ==
  \/ ScopeBeginComplete \/ ScopeInfo \/ ScopeValidate \/ ScopeNear \/ ScopeSession
  \/ ScopeFind \/ ScopeCommit \/ Switch \/ Respond

SpecScope == InitScope /\ [][NextScope]_vars

\* ------------------------------------------------- catalogs of the light-curve requests
\* bodies of ArchiveHandler.post that differ in the catalog they name
PostCatalogArgs ==
  [obj_id : {None, Str("A")},
   catalog : {Str(ZTF_sources_DR5), Str(<<"Gaia", "_DR2">>), Str(<<"ZTF", "_alerts">>)},
   light_curve_ids : {List(<<1>>), List(<<9>>)},
   group_ids : {List(<<1>>)}]

PostBeginCatalog ==
  /\ nreq < MaxRequests
  /\ \E a \in PostCatalogArgs : Begin("ArchiveHandler.post", a, "post_validate")
  /\ loc' = [PostLocals EXCEPT !.sources_before = sources]
  /\ nreq' = nreq + 1
  /\ UNCHANGED <<env, store, toks>>

InitCatalog ==
  /\ Init
  /\ gloria
  /\ user_streams = {Stream(ZTFPublic, 1, {1})}

NextCatalog ==
  \/ PostBeginCatalog \/ PostValidate \/ PostSelector \/ PostQuery \/ PostToken
  \/ PostSession \/ PostResolve \/ PostSource \/ PostNormalize \/ PostInstrument
  \/ PostStreams \/ PostIngest \/ PostFinally \/ ArchiveGet \/ Respond

SpecCatalog == InitCatalog /\ [][NextCatalog]_vars

\* ------------------------------------------------- properties
InLog(e) == \E i \in 1..Len(log) : log[i] = e

Count(e) == Cardinality({i \in 1..Len(log) : log[i] = e})

IsPost == handler = "ArchiveHandler.post"

Done == pc = "done"

\* the token is live when event i of the log happens
LiveAt(i) ==
  /\ \E j \in 1..(i - 1) : log[j] = "create_token"
  /\ ~\E j \in 1..(i - 1) : log[j] = "delete_token"

Sent(type) == \E i \in 1..Len(queries) : queries[i].query_type = type

\* C1: a request of ArchiveHandler.post that minted a token has called
\* delete_token on it exactly once when it returns, on every exit path, and
\* between requests no minted token is live.
C1_TokenRevokedExactlyOnce ==
  /\ (IsPost /\ Done /\ InLog("create_token"))
       => (Count("delete_token") = 1 /\ loc.token_id \notin tokens)
  /\ (pc \in {"idle", "done"}) => tokens = {}

\* C2 as stated: the aggregate query and every persistence step of
\* ArchiveHandler.post happen while the token is live (minted before, not
\* yet revoked).
C2_TokenBracketsQueryAndIngest ==
  IsPost => \A i \in 1..Len(log) :
              log[i] \in {"aggregate", "post_source", "add_external_photometry"}
                => LiveAt(i)

\* C2 amended: the token is minted only after the aggregate query has come
\* back with success and at least one record; source creation and photometry
\* ingestion happen while the token is live; delete_token is the last call
\* of the request, and until then the token is in the set of live tokens.
C2_TokenBracketsIngest ==
  IsPost =>
    /\ \A i \in 1..Len(log) :
         /\ log[i] = "create_token"
              => /\ \E j \in 1..(i - 1) : log[j] = "aggregate"
                 /\ queries[1].query_type = "aggregate"
                 /\ queries[1].status = "success"
                 /\ queries[1].n > 0
         /\ log[i] \in {"post_source", "add_external_photometry"} => LiveAt(i)
         /\ log[i] = "delete_token" => i = Len(log) /\ Done
    /\ (InLog("create_token") /\ ~InLog("delete_token")) => loc.token_id \in tokens

C2_Witness ==
  /\ IsPost /\ Done /\ result.kind = "success"
  /\ InLog("post_source") /\ InLog("add_external_photometry") /\ InLog("delete_token")

\* C3: a request of ArchiveHandler.post that fails (error or exception)
\* leaves the Source rows of the store as it found them.
C3_FailedRequestLeavesStore ==
  (IsPost /\ Done /\ result.kind \in {"error", "exception"})
    => sources = loc.sources_before

\* required-field validation of ArchiveHandler.post, as the claim words it
ViolatesRequired(a) ==
  \/ IsNone(a.obj_id) /\ (IsNone(a.group_ids) \/ a.group_ids = List(<<>>))
  \/ IsNone(a.catalog)
  \/ IsNone(a.light_curve_ids) \/ a.light_curve_ids = List(<<>>)

PositionHandlers ==
  {"CrossMatchHandler.get", "ScopeFeaturesHandler.post", "ArchiveHandler.get"}

ValidationMessages ==
  {"Missing required parameter: ra", "Missing required parameter: dec",
   "Missing required parameter: radius", "Missing required parameter: radius_units",
   "Invalid radius_units value.", "Invalid (non-float) value provided.",
   "Invalid R.A. value provided", "Invalid Decl. value provided",
   "Radius must be <= 1.0 deg"}

ValidationError ==
  /\ handler \in PositionHandlers /\ Done
  /\ result.kind = "error" /\ result.msg \in ValidationMessages

C6_UnavailableShortCircuits ==
  ~gloria =>
    /\ pc \in {"idle", "done", "post_validate", "cm_info", "ag_info", "sf_info"}
    /\ Done => result.kind = "error" /\ result.msg = "Gloria connection unavailable."
    /\ log = <<>>
    /\ queries = <<>>
    /\ tokens = {} /\ token_seq = 0
    /\ sources = {} /\ objs = {} /\ annotations = {} /\ photometry = {}

C6_Witness ==
  /\ ~gloria /\ Done /\ handler = "CrossMatchHandler.get"
  /\ result.msg = "Gloria connection unavailable."

\* the position tuple as the handler reads it (ScopeFeaturesHandler.post
\* fills in its defaults for radius and radius_units)
PositionTuple ==
  IF handler = "ScopeFeaturesHandler.post"
  THEN <<args.ra, args.dec, pop(args.radius, Num(2)), pop(args.radius_units, Unit("arcsec"))>>
  ELSE <<args.ra, args.dec, args.radius, args.radius_units>>

FieldNames == <<"ra", "dec", "radius", "radius_units">>

\* the request got as far as reading its position arguments
ReachedValidation ==
  /\ handler \in PositionHandlers /\ Done
  /\ result.kind # "exception"
  /\ result.msg \notin {"Gloria connection unavailable.", "Catalog not available",
                        "No catalogs available to run cross-match against."}

SomeButNotAllSupplied ==
  /\ \E i \in 1..4 : ~IsNone(PositionTuple[i])
  /\ \E i \in 1..4 : IsNone(PositionTuple[i])

FirstMissing ==
  FieldNames[CHOOSE i \in 1..4 :
               IsNone(PositionTuple[i]) /\ \A j \in 1..(i - 1) : ~IsNone(PositionTuple[j])]

\* C7: a position-query request with at least one but not all of ra, dec,
\* radius, radius_units supplied ends in the validation error that names
\* the first missing field, whatever the supplied values are (empty text and
\* numeric 0 included), and sends no cone search.
C7_AllOrNothing ==
  (ReachedValidation /\ SomeButNotAllSupplied)
    => /\ result.kind = "error"
       /\ result.msg = "Missing required parameter: " \o FirstMissing
       /\ ~Sent("near")

\* radius in arcsec
InArcsec(radius, units) ==
  IF units = <<"deg">> THEN 3600 * radius.v
  ELSE IF units = <<"arcmin">> THEN 60 * radius.v
  ELSE radius.v

\* a complete position query whose values are otherwise valid
CompleteValid ==
  /\ all(PositionTuple)
  /\ PositionTuple[4].t = "str"
  /\ PositionTuple[4].v \in {<<"deg">>, <<"arcmin">>, <<"arcsec">>}
  /\ \A i \in 1..3 : ~floatRaises(PositionTuple[i]) /\ ~float(PositionTuple[i]).nan
  /\ handler = "CrossMatchHandler.get"
       => /\ 0 <= float(PositionTuple[1]).v /\ float(PositionTuple[1]).v < 360
          /\ 0 - 90 <= float(PositionTuple[2]).v /\ float(PositionTuple[2]).v <= 90

\* C8: a complete position query whose radius is over 1 degree (3600 arcsec)
\* ends in the radius-cap error without a cone search, and every cone search
\* sent has a radius of at most 1 degree.
C8_RadiusCap ==
  /\ (ReachedValidation /\ CompleteValid
        /\ InArcsec(float(PositionTuple[3]), PositionTuple[4].v) > 3600)
       => /\ result.kind = "error"
          /\ result.msg = "Radius must be <= 1.0 deg"
          /\ ~Sent("near")
  /\ \A i \in 1..Len(queries) :
       queries[i].query_type = "near"
         => /\ ~queries[i].radius.nan
            /\ InArcsec(queries[i].radius, queries[i].units) <= 3600

\* C9: a request one of whose remote queries (info, near, find, aggregate)
\* came back with a non-success status ends in an error result carrying the
\* service's message, and sent no further query after the failed one.
C9_RemoteErrorSurfaced ==
  (Done /\ \E i \in 1..Len(queries) : queries[i].status = "error")
    => /\ result.kind = "error"
       /\ result.msg = RemoteMessage
       /\ \A i \in 1..(Len(queries) - 1) : queries[i].status = "success"

\* the cone search of ArchiveHandler.get / ScopeFeaturesHandler.post came
\* back with success and no identifier
EmptyCone ==
  /\ handler \in {"ArchiveHandler.get", "ScopeFeaturesHandler.post"} /\ Done
  /\ Len(queries) >= 2
  /\ queries[2].query_type = "near"
  /\ queries[2].status = "success"
  /\ queries[2].n = 0

\* C10 as stated: an empty cone search is reported as success with an empty
\* result, without a second remote request and without storing anything.
C10_EmptyConeIsSuccess ==
  EmptyCone
    => /\ result.kind = "success" /\ result.data = <<>>
       /\ Len(queries) = 2
       /\ ~InLog("commit")

\* C10 amended: after an empty cone search no second remote request is sent
\* and nothing is stored; ArchiveHandler.get reports success with an empty
\* result, and so does ScopeFeaturesHandler.post unless its lookup of the
\* object or of the caller's groups fails, which it reports as that error.
C10_EmptyConeNoSecondRequest ==
  EmptyCone
    => /\ Len(queries) = 2
       /\ ~InLog("commit")
       /\ \/ result.kind = "success" /\ result.data = <<>>
          \/ /\ handler = "ScopeFeaturesHandler.post"
             /\ result.kind = "error"
             /\ \/ result.msg = "Cannot find source" /\ args.id.v \notin objs
                \/ result.msg = "Cannot find one or more groups" /\ args.id.v \in objs

C10_Witness ==
  /\ EmptyCone /\ handler = "ScopeFeaturesHandler.post"
  /\ result.kind = "success"

\* every epoch of a sequence of light-curve records has its programid in sel
EpochsWithin(records, sel) ==
  \A i \in 1..Len(records) :
    \A j \in 1..Len(records[i].data) : records[i].data[j].programid \in sel

\* C11: every aggregate request of ArchiveHandler.get and ArchiveHandler.post
\* carries the caller's accessible program ids as its $filter on data, and
\* every epoch returned to the caller, held by the ingestion request or
\* stored as photometry has a programid in that set.
C11_EpochsWithinAccessiblePrograms ==
  LET sel == program_id_selector(user_streams)
  IN /\ \A i \in 1..Len(queries) :
          queries[i].query_type = "aggregate" => queries[i].selector = sel
     /\ (handler = "ArchiveHandler.get" /\ Done /\ result.kind = "success")
          => EpochsWithin(result.data, sel)
     /\ IsPost
          => /\ EpochsWithin(loc.light_curves, sel)
             /\ \A i \in 1..Len(loc.df_photometry) : loc.df_photometry[i].programid \in sel
     /\ \A b \in photometry : \A i \in 1..Len(b.rows) : b.rows[i].programid \in sel

\* a successful ingestion for which the filter removed an epoch of a record
C11_Witness ==
  /\ IsPost /\ Done /\ result.kind = "success" /\ photometry # {}
  /\ \E i \in 1..Len(loc.light_curves) : \E k \in 1..Len(RemoteRecords) :
       /\ RemoteRecords[k].id = loc.light_curves[i].id
       /\ Len(loc.light_curves[i].data) < Len(RemoteRecords[k].data)

\* the stream's name has 'ztf' in it, in any letter case
ZtfNamed(st) == \E i \in 1..Len(st.name) : st.name[i] \in {"ZTF", "Ztf", "ztf"}

\* the request has computed its program id selector
SelectorComputed ==
  /\ handler \in {"ArchiveHandler.get", "ArchiveHandler.post"}
  /\ InLog("session")

\* C12: the accessible program set holds the public program id 1 and the
\* selector ids of the caller's streams whose name contains 'ztf' in any
\* letter case, and nothing else; without such a stream it is exactly {1}.
C12_SelectorFromZtfStreams ==
  SelectorComputed =>
    LET sel == loc.program_id_selector
    IN /\ 1 \in sel
       /\ \A st \in user_streams : ZtfNamed(st) => st.selector \subseteq sel
       /\ \A p \in sel \ {1} : \E st \in user_streams : ZtfNamed(st) /\ p \in st.selector
       /\ (~\E st \in user_streams : ZtfNamed(st)) => sel = {1}

\* a caller with a stream of another survey whose selector stays out, and a
\* caller whose only stream is named in mixed case
C12_Witness ==
  /\ SelectorComputed /\ Done
  /\ \/ \E st \in user_streams :
          ~ZtfNamed(st) /\ ~(st.selector \subseteq loc.program_id_selector)
     \/ /\ user_streams # {}
        /\ \A st \in user_streams : <<"ZTF">> # SubSeq(st.name, 1, 1)
        /\ loc.program_id_selector # {1}

\* the aggregate query of ArchiveHandler.post came back with success and no
\* record
NoRecords ==
  /\ IsPost /\ Len(queries) >= 1
  /\ queries[1].query_type = "aggregate"
  /\ queries[1].status = "success"
  /\ queries[1].n = 0

\* C13: when the aggregate query of ArchiveHandler.post succeeds with zero
\* records the request ends in the no-data error; no token is minted, no
\* source is looked up or created and the ingestion call is not made.
C13_NoRecordsNothingPersisted ==
  NoRecords
    => /\ Done /\ result.kind = "error"
       /\ result.msg = "No data found for requested light_curve_ids"
       /\ log = <<"session", "aggregate">>
       /\ loc.token_id = 0
       /\ sources = loc.sources_before

C13_Witness == NoRecords /\ Done /\ args.light_curve_ids.v = <<9>>

\* C14: ArchiveHandler.post calls post_source at most once per request, and
\* exactly when its lookup finds no source with the resolved id; the call
\* carries the resolved id and the destination groups of the request.  A
\* request that finds the source (created by an earlier request or already
\* in the store) does not call post_source.
C14_SourceCreatedOnce ==
  IsPost =>
    /\ Count("post_source") <= 1
    /\ InLog("post_source")
         => /\ loc.obj_id \notin loc.sources_before
            /\ loc.post_source_data.id = loc.obj_id
            /\ loc.post_source_data.group_ids = args.group_ids
    /\ InLog("select_source")
         => (InLog("post_source") <=> loc.obj_id \notin loc.sources_before)
    /\ (Done /\ result.kind = "success") => loc.obj_id \in sources

\* a second request that resolves to the name the first one created
C14_Witness ==
  /\ IsPost /\ Done /\ result.kind = "success" /\ nreq = 2
  /\ IsNone(args.obj_id)
  /\ loc.obj_id \in loc.sources_before
  /\ InLog("select_source") /\ ~InLog("post_source")

\* the name of the mean position of the remote records with these
\* identifiers, worked out by hand: 180 deg is 12 h; the mean of records 1
\* and 2 is 1 arcsec east and 0.5 arcsec south of (180 deg, 0); 10 deg is
\* 0 h 40 min; 20 deg is 1 h 20 min
ExpectedName(ids) ==
  CASE ids = <<1>> -> "ZTFJ120000.00+000000.0"
    [] ids = <<1, 2>> -> "ZTFJ120000.07-000000.5"
    [] ids = <<3>> -> "ZTFJ004000.00+050000.0"
    [] ids = <<5>> -> "ZTFJ012000.00-003000.0"
    [] OTHER -> ""

SuccessfulPost == IsPost /\ Done /\ result.kind = "success"

\* C15: a successful ArchiveHandler.post returns the resolved entity id: the
\* obj_id of the request when there is one, otherwise the ZTFJ name of the
\* mean position of the returned records; the source looked up or created
\* and the photometry batch carry the same id.
C15_ReturnsResolvedId ==
  SuccessfulPost =>
    LET id == IF IsNone(args.obj_id) THEN ExpectedName(args.light_curve_ids.v)
              ELSE args.obj_id.v
    IN /\ result.data = <<id>>
       /\ id \in sources
       /\ InLog("post_source") => loc.post_source_data.id = id
       /\ InLog("add_external_photometry")
            => \E b \in photometry : b.obj_id = id /\ b.rows = loc.df_photometry

\* a synthesized name for the mean of two records, created and ingested
C15_Witness ==
  /\ SuccessfulPost /\ IsNone(args.obj_id) /\ args.light_curve_ids.v = <<1, 2>>
  /\ InLog("post_source") /\ InLog("add_external_photometry")

\* the aggregate query returned records none of whose epochs is unflagged:
\* normalization with flagged-row dropping has no row to give
ZeroRows ==
  /\ IsPost /\ Len(loc.light_curves) > 0
  /\ \A i \in 1..Len(loc.light_curves) :
       \A j \in 1..Len(loc.light_curves[i].data) : loc.light_curves[i].data[j].catflags # 0

\* the session, post_source and the instrument lookup did not fail
CollaboratorsFine ==
  /\ instrument
  /\ result.msg # "Session"
  /\ loc.pending.msg # "post_source"

\* C16: a request of ArchiveHandler.post whose normalization yields zero rows
\* (every epoch of every returned record is flagged, or every returned
\* record has an empty data sequence) skips the ingestion call and ends in
\* success with the resolved entity id.
C16_ZeroRowsIsSuccess ==
  (ZeroRows /\ Done /\ CollaboratorsFine)
    => /\ result.kind = "success"
       /\ result.data = <<loc.obj_id>>
       /\ ~InLog("add_external_photometry")

\* positions <<record, epoch>> of the unflagged epochs of the records
Unflagged(records) ==
  UNION {{<<i, j>> : j \in {k \in 1..Len(records[i].data) :
                                records[i].data[k].catflags = 0}} :
           i \in 1..Len(records)}

\* row r was made from epoch p of the records
RowOf(r, records, p) ==
  /\ r.mjd + 4800001 = records[p[1]].data[p[2]].hjd
  /\ r.programid = records[p[1]].data[p[2]].programid
  /\ r.fid = records[p[1]].filter

\* C17: add_external_photometry is called at most once per request of
\* ArchiveHandler.post; a successful request with at least one unflagged
\* epoch calls it exactly once, with one batch that has one row for every
\* unflagged epoch of every returned record and as many stream ids as rows.
C17_OneFullBatch ==
  IsPost =>
    /\ Count("add_external_photometry") <= 1
    /\ (Done /\ result.kind = "success" /\ Unflagged(loc.light_curves) # {})
         => /\ Count("add_external_photometry") = 1
            /\ \E b \in photometry :
                 /\ b.obj_id = loc.obj_id
                 /\ Len(b.rows) = Cardinality(Unflagged(loc.light_curves))
                 /\ Len(b.stream_ids) = Len(b.rows)
                 /\ \A p \in Unflagged(loc.light_curves) :
                      \E k \in 1..Len(b.rows) : RowOf(b.rows[k], loc.light_curves, p)

\* a batch of four rows from two records, one of whose epochs is flagged
C17_Witness ==
  /\ SuccessfulPost /\ Len(loc.light_curves) = 2
  /\ Cardinality(Unflagged(loc.light_curves)) = 4
  /\ \E j \in 1..Len(loc.light_curves[1].data) : loc.light_curves[1].data[j].catflags # 0

\* the stream that stands for a program id
StreamNameOf(programid) ==
  CASE programid = 1 -> <<"ZTF", " Public">>
    [] programid = 2 -> <<"ZTF", " Public", "+Partnership">>
    [] programid \in {0, 3} -> <<"ZTF", " Public", "+Partnership", "+Caltech">>

Mapped(programid) == \E st \in user_streams : st.name = StreamNameOf(programid)

\* C18: every row of an ingested batch carries the id of the stream that
\* stands for its program id (1: 'ZTF Public', 2: 'ZTF Public+Partnership',
\* 0 and 3: 'ZTF Public+Partnership+Caltech', by exact name); a request one
\* of whose unflagged epochs has a program id without such a stream fails
\* and makes no ingestion call.
C18_StreamIdsFromProgramMap ==
  /\ \A b \in photometry : \A k \in 1..Len(b.rows) :
       \E st \in user_streams :
         st.name = StreamNameOf(b.rows[k].programid) /\ b.stream_ids[k] = st.id
  /\ (IsPost /\ Done
        /\ \E p \in Unflagged(loc.light_curves) :
             ~Mapped(loc.light_curves[p[1]].data[p[2]].programid))
       => /\ result.kind \in {"error", "exception"}
          /\ ~InLog("add_external_photometry")

\* the mapping step met a program id without stream and raised
C18_Witness ==
  /\ IsPost /\ Done /\ result.kind = "exception" /\ result.msg = "KeyError"
  /\ log[Len(log) - 1] = "select_streams"
  /\ \E p \in Unflagged(loc.light_curves) :
       ~Mapped(loc.light_curves[p[1]].data[p[2]].programid)

\* the request that is running, as a record like parked
Running ==
  [handler |-> handler, pc |-> pc, args |-> args, loc |-> loc, result |-> result,
   log |-> log, queries |-> queries]

\* request c of ScopeFeaturesHandler.post has committed its annotation, with
\* or without success
Posted(c) ==
  /\ c.handler = "ScopeFeaturesHandler.post" /\ c.pc = "done"
  /\ \E i \in 1..Len(c.log) : c.log[i] = "commit"

Won(c) ==
  /\ c.result.kind = "success"
  /\ \E i \in 1..Len(c.log) : c.log[i] = "push_all"

Lost(c) ==
  /\ c.result.kind = "error" /\ c.result.msg = "Annotation already posted."
  /\ ~\E i \in 1..Len(c.log) : c.log[i] = "push_all"

SameAnnotationTwice ==
  /\ Posted(Running) /\ Posted(parked)
  /\ loc.annotation = parked.loc.annotation

\* C19: of two requests of ScopeFeaturesHandler.post, one after the other
\* or interleaved, that commit the same (obj_id, origin, author), exactly one
\* stores the annotation and notifies; the other is answered 'Annotation
\* already posted.' and notifies nobody.  (Both are answered so when a
\* request before them has stored the annotation.)
C19_AnnotationPostedOnce ==
  SameAnnotationTwice
    => /\ loc.annotation \in annotations
       /\ \/ Won(Running) /\ Lost(parked)
          \/ Lost(Running) /\ Won(parked)
          \/ nreq > 2 /\ Lost(Running) /\ Lost(parked)

\* the first two requests: one has won, the running one has lost
C19_Witness ==
  SameAnnotationTwice /\ nreq = 2 /\ Lost(Running) /\ Won(parked)

\* positions <<record, epoch>> of all the epochs of the records
Epochs(records) ==
  UNION {{<<i, j>> : j \in 1..Len(records[i].data)} : i \in 1..Len(records)}

\* position q comes before position p in the flattened input
Before(q, p) == q[1] < p[1] \/ (q[1] = p[1] /\ q[2] < p[2])

\* the rows are made from exactly the epochs at the positions kept, one row
\* each, in the order of the flattened input
RowsAre(rows, records, kept) ==
  /\ Len(rows) = Cardinality(kept)
  /\ \A p \in kept :
       LET k == 1 + Cardinality({q \in kept : Before(q, p)})
       IN /\ RowOf(rows[k], records, p)
          /\ rows[k].catflags = records[p[1]].data[p[2]].catflags

Normalized == handler = "make_photometry" /\ Done /\ result.kind = "success"

\* C20: for an input with at least one epoch, make_photometry with
\* drop_flagged=True returns one row for every epoch whose catflags is 0 and
\* no other row, in the order of the flattened input (records in input
\* order, epochs in their order within the record); with drop_flagged=False
\* it returns one row for every epoch, in the same order.
C20_RowsInInputOrder ==
  Normalized
    => RowsAre(result.data, args.light_curves,
               IF args.drop_flagged THEN Unflagged(args.light_curves)
               ELSE Epochs(args.light_curves))

\* two light curves with flagged and unflagged epochs, the mask applied
C20_Witness ==
  /\ Normalized /\ args.drop_flagged
  /\ Len(args.light_curves) = 2
  /\ Len(result.data) = 2
  /\ Cardinality(Epochs(args.light_curves)) = 4
  /\ args.light_curves[1].data[1].catflags # 0
  /\ args.light_curves[2].data[2].catflags # 0

\* the call of radec_to_iau_name is over
Named == handler = "radec_to_iau_name" /\ Done

\* what follows the prefix in the name returned
Body == SubSeq(result.data[1], Len(args.prefix) + 1, Len(result.data[1]))

\* character i of the body, and the number written at characters i, i + 1
Ch(i) == SubSeq(Body, i, i)

Num2(i) == 10 * DigitVal(Ch(i)) + DigitVal(Ch(i + 1))

InRange ==
  /\ 0 <= args.ra /\ args.ra < 360 * Deg
  /\ 0 - 90 * Deg <= args.dec /\ args.dec <= 90 * Deg

\* prefix, six digits, a dot, two digits, a sign, n digits, a dot, a digit
Matches(n) ==
  /\ Len(result.data[1]) = Len(args.prefix) + 12 + n
  /\ SubSeq(result.data[1], 1, Len(args.prefix)) = args.prefix
  /\ \A i \in (1..6) \cup {8, 9} \cup (11..(10 + n)) \cup {12 + n} : Ch(i) \in Digits
  /\ Ch(7) = "." /\ Ch(11 + n) = "."
  /\ Ch(10) \in {"+", "-"}

\* the right ascension written in the name, in hundredths of a second of
\* time, and the declination written, in tenths of an arcsecond
WrittenRa == Num2(1) * 360000 + Num2(3) * 6000 + Num2(5) * 100 + Num2(8)

WrittenDec == Num2(11) * 36000 + Num2(13) * 600 + Num2(15) * 10 + DigitVal(Ch(18))

\* C21: for ra in [0,360) and dec in [-90,90] radec_to_iau_name returns
\* prefix + HHMMSS.SS + sign + DDMMSS.S with fixed field widths, the fields
\* write ra and |dec| rounded to 0.01 s and 0.1 arcsec, and the sign is '-'
\* exactly when dec < 0 (also for -1 < dec < 0); (180, 0, 'ZTFJ') gives
\* 'ZTFJ120000.00+000000.0'; outside the ranges it raises and returns no
\* name.
C21_NameFormat ==
  Named =>
    IF InRange
    THEN /\ result.kind = "success"
         /\ Matches(6)
         /\ Ch(10) = (IF args.dec < 0 THEN "-" ELSE "+")
         /\ WrittenRa = (4 * args.ra + 9) \div 18
         /\ WrittenDec = (2 * abs(args.dec) + 3) \div 6
         /\ (args.ra = 180 * Deg /\ args.dec = 0 /\ args.prefix = "ZTFJ")
              => result.data = <<"ZTFJ120000.00+000000.0">>
    ELSE result.kind = "exception" /\ result.data = <<>>

\* a declination between -1 and 0 degrees
C21_Witness ==
  /\ Named /\ result.kind = "success"
  /\ 0 - Deg < args.dec /\ args.dec < 0
  /\ Ch(10) = "-" /\ Num2(11) = 0

\* C22 as stated: every name returned matches PREFIX, six digits, a dot, two
\* digits, a sign, five digits, a dot and one digit.
C22_MatchesFiveDigitPattern == (Named /\ result.kind = "success") => Matches(5)

\* C22 amended: every name returned matches PREFIX, six digits, a dot, two
\* digits, a sign, six digits (degrees, arcminutes and whole arcseconds, two
\* each), a dot and one digit.
C22_MatchesSixDigitPattern == (Named /\ result.kind = "success") => Matches(6)

\* a name with a one-letter prefix, seconds of declination under 10
C22_Witness ==
  /\ Named /\ result.kind = "success" /\ args.prefix = "J"
  /\ Num2(15) < 10 /\ args.dec > 0

\* C29: in every name returned each sexagesimal field is in range as
\* printed: hours <= 23, minutes <= 59, seconds of right ascension < 60.00,
\* degrees <= 90, arcminutes <= 59, seconds of declination < 60.0.
C29_FieldsInRange ==
  (Named /\ result.kind = "success")
    => /\ Num2(1) <= 23 /\ Num2(3) <= 59
       /\ Num2(5) * 100 + Num2(8) < 6000
       /\ Num2(11) <= 90 /\ Num2(13) <= 59
       /\ Num2(15) * 10 + DigitVal(Ch(18)) < 600

\* the requests of the running call that are keyed by identifiers
IsSecond(q) == q.query_type \in {"aggregate", "find"}

\* the identifiers the first cone search of the running call returned
Returned ==
  IF handler = "ArchiveHandler.get" THEN loc.light_curve_ids ELSE loc.response.ids

\* C23: in ArchiveHandler.get and ScopeFeaturesHandler.post an aggregate or
\* find request is sent only after a cone search with identifier-only
\* projection against one catalog has returned success with at least one
\* identifier; it is keyed by all returned identifiers (aggregate) or by the
\* first of them (find) and targets the same catalog.
C23_IdentifiersFirst ==
  handler \in {"ArchiveHandler.get", "ScopeFeaturesHandler.post"}
    => \A i \in 1..Len(queries) :
         IsSecond(queries[i])
           => /\ i > 1
              /\ \A j \in 1..(i - 1) : ~IsSecond(queries[j])
              /\ LET first == queries[i - 1]
                     second == queries[i]
                 IN /\ first.query_type = "near"
                    /\ first.projection = {"_id"}
                    /\ Cardinality(first.catalogs) = 1
                    /\ first.status = "success"
                    /\ first.n >= 1
                    /\ first.n = Len(Returned)
                    /\ second.catalogs = first.catalogs
                    /\ second.ids # <<>>
                    /\ IF second.query_type = "aggregate"
                       THEN second.ids = Returned
                       ELSE second.ids = <<Returned[1]>>

C23_Witness ==
  /\ handler = "ArchiveHandler.get" /\ Done /\ Len(queries) = 3
  /\ queries[3].query_type = "aggregate" /\ queries[3].ids = <<1, 2>>
  /\ queries[2].n = 2 /\ result.kind = "success"

\* C24: every cone search sent carries ra in [0, 360), dec in [-90, 90],
\* radius > 0 and radius_units in {deg, arcmin, arcsec}.
C24_NearCarriesValidPosition ==
  \A i \in 1..Len(queries) :
    queries[i].query_type = "near"
      => /\ Le(0, queries[i].ra) /\ Lt(queries[i].ra, 360)
         /\ Le(0 - 90, queries[i].dec) /\ LeN(queries[i].dec, 90)
         /\ Gt(queries[i].radius, 0)
         /\ queries[i].units \in {<<"deg">>, <<"arcmin">>, <<"arcsec">>}

\* the catalogs the cone searches of the running call were sent against
NearCatalogs ==
  UNION {queries[i].catalogs : i \in {j \in 1..Len(queries) : queries[j].query_type = "near"}}

NamedWithPrefix(prefixes) ==
  {catalog \in catalog_names : \E prefix \in prefixes : startswith(catalog, prefix)}

\* C25: catalog sets are decided by name prefix.  The cross-match queries
\* exactly the discovered catalogs that do not start with ZTF, PTF, PGIR or
\* WNTR and reports the no-catalogs error when there is none; the feature
\* lookup queries only a catalog that starts with ZTF_source_features and
\* the light-curve lookup only one that starts with ZTF_sources.
C25_MembershipByPrefix ==
  /\ (handler = "CrossMatchHandler.get" /\ Sent("near"))
       => NearCatalogs =
            catalog_names \ NamedWithPrefix({<<"ZTF">>, <<"PTF">>, <<"PGIR">>, <<"WNTR">>})
  /\ (handler = "CrossMatchHandler.get" /\ Done /\ Len(queries) >= 1
        /\ queries[1].status = "success"
        /\ catalog_names
             \subseteq NamedWithPrefix({<<"ZTF">>, <<"PTF">>, <<"PGIR">>, <<"WNTR">>}))
       => /\ result.kind = "error"
          /\ result.msg = "No catalogs available to run cross-match against."
  /\ handler = "ScopeFeaturesHandler.post"
       => NearCatalogs \subseteq NamedWithPrefix({ZTF_source_features})
  /\ handler = "ArchiveHandler.get"
       => NearCatalogs \subseteq NamedWithPrefix({ZTF_sources})

\* the discovered catalogs that ArchiveHandler.get exposes as light-curve catalogs
LightCurveCatalogs == {catalog \in catalog_names : contains(catalog, ZTF_sources)}

\* C26: every light-curve query of ArchiveHandler.get and ArchiveHandler.post
\* targets a catalog of the discovered list restricted to the light-curve
\* catalogs; a request that names another catalog sends no query against it.
C26_LightCurveQueriesOnDiscoveredCatalogs ==
  handler \in {"ArchiveHandler.get", "ArchiveHandler.post"}
    => \A i \in 1..Len(queries) :
         queries[i].query_type \in {"near", "aggregate"}
           => queries[i].catalogs \subseteq LightCurveCatalogs

\* C28: whenever ArchiveHandler.post calls post_source, the group_ids it
\* passes is a non-empty list.
C28_SourceCreatedWithGroups ==
  (IsPost /\ InLog("post_source"))
    => /\ loc.post_source_data.group_ids.t = "list"
       /\ Len(loc.post_source_data.group_ids.v) > 0

\* C27: every call of CrossMatchHandler.get, ScopeFeaturesHandler.post,
\* ArchiveHandler.get or ArchiveHandler.post that returns normally has
\* reported a result, success or error; none ends without reporting.
C27_ReturnsAResult ==
  (/\ handler \in {"CrossMatchHandler.get", "ScopeFeaturesHandler.post",
                   "ArchiveHandler.get", "ArchiveHandler.post"}
   /\ Done
   /\ result.kind # "exception")
    => result.kind \in {"success", "error"}

====
